---- MODULE Spec2Model ----
(***************************************************************************)
(* The monitor-set store and the batch scan of the scraper bot             *)
(* (src/unnamed/part_002, BOT_TYPE === "SCRAPER_BOT") and of the combined  *)
(* bot (src/unnamed/part_001, lines 527-1418).                             *)
(*                                                                         *)
(* Node runs every interactionCreate handler on one thread; a handler runs *)
(* without interruption from one `await` to the next.  Each action below   *)
(* is one such run: it starts where a handler was suspended and ends at    *)
(* the handler's next suspension point (or at its end).                    *)
(***************************************************************************)
EXTENDS Integers, Sequences, FiniteSets, TLC

\* ------------------------------------------------------------- bounds ----
\* The id space of the store.  The code writes the literal 100
\* (generateProductId: for (let id = 1; id <= 100; id++)); the model scales
\* it down so that a full store is reachable.
IdLimit == 2
\* Interaction handlers that can be in progress at the same time.
NumHandlers == 2
\* The clock is read within ClockSlack ms after the start and after the
\* cache duration has passed once.
ClockSlack == 1

Handlers == 1..NumHandlers

\* ------------------------------------------------------------- inputs ----
\* name/url options of addlink and add (both required, non-empty).
AddInputs ==
  { [name |-> "a", url |-> "ua"], [name |-> "b", url |-> "ub"] }
\* The one product added while scans are examined.
ScanAddInputs == { [name |-> "a", url |-> "ua"] }

\* The id lists given to bulkremovelink while scans are examined.
ScanIdsInputs == { <<"1">>, <<"1", ",", "2">>, <<"4">> }

\* Parsed bodies of the JSON attachment of bulklink / bulk.  "" stands for a
\* property the JSON object does not have.
BulkItems ==
  { [name |-> "a", url |-> "ua"], [name |-> "", url |-> "ub"],
    [name |-> "b", url |-> ""] }
BulkArrays ==
  { <<>> } \cup { <<x>> : x \in BulkItems }
    \cup { <<x, y>> : x \in {[name |-> "a", url |-> "ua"]}, y \in BulkItems }
\* An attachment: is its content type / name JSON, does the download work,
\* is the body an array, and the array.
Attachments ==
  { [json |-> FALSE, ok |-> TRUE, isArray |-> TRUE, data |-> <<>>],
    [json |-> TRUE, ok |-> FALSE, isArray |-> TRUE, data |-> <<>>],
    [json |-> TRUE, ok |-> TRUE, isArray |-> FALSE, data |-> <<>>] }
  \cup { [json |-> TRUE, ok |-> TRUE, isArray |-> TRUE, data |-> d] :
           d \in BulkArrays }

\* The `ids` option of bulkremovelink, a string, as its characters.
IdsInputs ==
  { <<"1">>, <<"2">>, <<"3">>, <<"4">>, <<>>, <<"x">>,
    <<"1", ",", "2">>, <<"2", ",", " ", "1">>, <<"2", ",", "2">>,
    <<"1", ",", "x">>, <<"1", ",", "4">>, <<"1", ",">>,
    <<"1", ".", "5">>, <<"2", "x">>, <<"1", "2">> }

\* What a page shows for the two selectors.
Extracts == { [price |-> "10", stock |-> "In Stock"] }

\* ------------------------------------------------- program constants ----
\* const CACHE_DURATION = 5 * 60 * 1000;
CACHE_DURATION == 5 * 60 * 1000
\* Date.now() when the bot starts: any value above CACHE_DURATION, so that
\* the initial scrapeCacheTimestamp = 0 is already expired.
StartTime == CACHE_DURATION + 1
ClockValues ==
  { StartTime + k * CACHE_DURATION + j : k \in 0..1, j \in 0..ClockSlack }
\* The message of the error axiosFallback throws (scraper bot).
FallbackError == "Fallback error"

VARIABLES
  products,             \* the array `products` refers to, as object references
  objs,                 \* the product objects: reference -> [id, name, url]
                        \* (priceSelector, stockSelector and checkText are
                        \* carried along unread by the store and left out)
  file,                 \* content of products.json
  lastScrapeResults,    \* cached snapshot
  scrapeCacheTimestamp, \* Date.now() at the end of the scan that cached it
  now,                  \* Date.now()
  pc,                   \* per handler: the await it is suspended at
  loc,                  \* per handler: its local variables
  inflight,             \* extractions started and not yet settled
  messageCache,         \* client.messageCache: message id -> pages, currentPage
  interactionCache,     \* Firebase bot: message id -> the add wizard's data
  db,                   \* Firebase bot: the documents of collection 'products'
  components,           \* Firebase bot: message id -> the customIds of the
                        \* buttons and selects the message shows
  processedInteractions, \* combined bot: the ids of the interactions handled,
                        \* in insertion order
  cancelled,            \* Firebase bot: the messages whose Cancel was handled
                        \* while nothing of theirs was stored or being
                        \* stored (observation only)
  last                  \* the answer most recently given (observation only)

\* What the store and the scan never touch.
elsewhere ==
  << messageCache, interactionCache, db, components, cancelled,
     processedInteractions >>

vars == << products, objs, file, lastScrapeResults, scrapeCacheTimestamp,
           now, pc, loc, inflight, messageCache, interactionCache, db,
           components, cancelled, processedInteractions, last >>

\* ------------------------------------------------------- the store ----
\* JSON.stringify(products): the records by value, in array order.
Serialize(hp, arr) == [i \in 1..Len(arr) |-> hp[arr[i]]]

UsedIds(hp, arr) == { hp[arr[i]].id : i \in 1..Len(arr) }

RECURSIVE FirstFree(_, _)
FirstFree(usedIds, id) ==
  IF id > IdLimit THEN 0
  ELSE IF id \notin usedIds THEN id
  ELSE FirstFree(usedIds, id + 1)

\* A plausible slip: the loop runs downwards, from the top of the id space.
generateProductId_FromTop(hp, arr) ==
  LET free == (1..IdLimit) \ UsedIds(hp, arr)
  IN  IF free = { } THEN 0 ELSE CHOOSE id \in free : \A k \in free : k <= id

\* A plausible slip: the loop bound is off by one (id <= IdLimit + 1).
generateProductId_OffByOne(hp, arr) ==
  LET free == (1..(IdLimit + 1)) \ UsedIds(hp, arr)
  IN  CHOOSE id \in free : \A k \in free : id <= k

\* generateProductId(): the first id of 1..IdLimit no product has; null (0).
generateProductId(hp, arr) == FirstFree(UsedIds(hp, arr), 1)

\* A new object's reference: one that nothing refers to.
FreshOid(hp) == Cardinality(DOMAIN hp) + 1

\* products.push({id, name, url, ...}) on the heap hp and the array arr.
Push(hp, arr, rec) ==
  LET o == FreshOid(hp)
  IN  [hp |-> [q \in DOMAIN hp \cup {o} |-> IF q = o THEN rec ELSE hp[q]],
       arr |-> Append(arr, o)]

\* Array.prototype.splice(index, 1), index counted from 1.
Splice(arr, index) ==
  [i \in 1..(Len(arr) - 1) |-> IF i < index THEN arr[i] ELSE arr[i + 1]]

\* Array.prototype.findIndex(p => p.id === id): 0 stands for -1.
RECURSIVE FindIndexFrom(_, _, _, _)
FindIndexFrom(hp, arr, id, i) ==
  IF i > Len(arr) THEN 0
  ELSE IF hp[arr[i]].id = id THEN i
  ELSE FindIndexFrom(hp, arr, id, i + 1)
findIndex(hp, arr, id) == FindIndexFrom(hp, arr, id, 1)

\* products.sort((a, b) => a.id - b.id): a stable sort by id.
RECURSIVE InsertById(_, _, _)
InsertById(hp, sorted, o) ==
  IF sorted = << >> THEN << o >>
  ELSE IF hp[o].id < hp[Head(sorted)].id THEN << o >> \o sorted
  ELSE << Head(sorted) >> \o InsertById(hp, Tail(sorted), o)
RECURSIVE SortFrom(_, _, _)
SortFrom(hp, arr, i) ==
  IF i = 0 THEN << >>
  ELSE InsertById(hp, SortFrom(hp, arr, i - 1), arr[i])
SortById(hp, arr) == SortFrom(hp, arr, Len(arr))

PositionIn(arr, o) == CHOOSE i \in 1..Len(arr) : arr[i] = o
Range(arr) == { arr[i] : i \in 1..Len(arr) }

\* reorganizeIds(): sort the array in place by id, then products[i].id = i + 1
\* (the objects are renumbered, so every holder of a reference sees it).
\* saveProducts() follows in the calling action.
reorganizeIds(hp, arr) ==
  LET sorted == SortById(hp, arr)
  IN  [arr |-> sorted,
       hp |-> [o \in DOMAIN hp |->
                 IF o \in Range(sorted)
                 THEN [hp[o] EXCEPT !.id = PositionIn(sorted, o)]
                 ELSE hp[o]]]

\* ------------------------------------------------- parsing the id list ----
NaN == 0 - 1
Digits == { "0", "1", "2", "3", "4", "5", "6", "7", "8", "9" }
DigitValue(c) ==
  CASE c = "0" -> 0 [] c = "1" -> 1 [] c = "2" -> 2 [] c = "3" -> 3
    [] c = "4" -> 4 [] c = "5" -> 5 [] c = "6" -> 6 [] c = "7" -> 7
    [] c = "8" -> 8 [] c = "9" -> 9

\* String.prototype.split(','): "" gives [""], "1," gives ["1", ""].
RECURSIVE SplitFrom(_, _, _, _)
SplitFrom(str, i, cur, acc) ==
  IF i > Len(str) THEN Append(acc, cur)
  ELSE IF str[i] = "," THEN SplitFrom(str, i + 1, << >>, Append(acc, cur))
  ELSE SplitFrom(str, i + 1, Append(cur, str[i]), acc)
Split(str) == SplitFrom(str, 1, << >>, << >>)

\* String.prototype.trim()
RECURSIVE TrimLeft(_)
TrimLeft(str) ==
  IF str # << >> /\ Head(str) = " " THEN TrimLeft(Tail(str)) ELSE str
RECURSIVE TrimRight(_)
TrimRight(str) ==
  IF str # << >> /\ str[Len(str)] = " "
  THEN TrimRight(SubSeq(str, 1, Len(str) - 1)) ELSE str
Trim(str) == TrimLeft(TrimRight(str))

\* parseInt(str): the value of the longest prefix of decimal digits after
\* leading blanks; NaN when there is none.  Whatever follows the digits is
\* ignored.  (The inputs hold no sign and no 0x prefix.)
RECURSIVE ParseDigits(_, _, _)
ParseDigits(str, i, acc) ==
  IF i > Len(str) \/ str[i] \notin Digits THEN acc
  ELSE ParseDigits(str, i + 1, acc * 10 + DigitValue(str[i]))
parseInt(str) ==
  LET t == TrimLeft(str)
  IN  IF t = << >> \/ t[1] \notin Digits THEN NaN ELSE ParseDigits(t, 1, 0)

\* idsInput.split(',').map(id => parseInt(id.trim()))
ParseIds(idsInput) ==
  LET toks == Split(idsInput)
  IN  [i \in 1..Len(toks) |-> parseInt(Trim(toks[i]))]

InSeq(x, seq) == \E i \in 1..Len(seq) : seq[i] = x
RECURSIVE Filter(_, _, _)
\* Array.prototype.filter keeping the objects whose id is not in `ids`.
Filter(hp, arr, ids) ==
  IF arr = << >> THEN << >>
  ELSE IF InSeq(hp[Head(arr)].id, ids) THEN Filter(hp, Tail(arr), ids)
  ELSE << Head(arr) >> \o Filter(hp, Tail(arr), ids)

\* ------------------------------------------------ handlers' local state ----
\* The local variables of one interactionCreate handler.  clean and fails
\* observe the scan for the properties below; the code has no such variables.
Blank ==
  [ cmd |-> "",        \* interaction.commandName
    results |-> << >>, \* checkSites: results
    idx |-> 0,         \* checkSites: position of the array iterator
    live |-> TRUE,     \* the iterated array is still the one `products` names
    arr |-> << >>,     \* the iterated array, once `products` names another
    site |-> 0,        \* checkSites: the object being fetched (0: none)
    added |-> << >>,   \* bulk: addedProducts
    clean |-> TRUE,    \* the store was not modified since the scan began
    fails |-> << >>,   \* per record fetched: did both paths fail
    i |-> 0,           \* safeGoto: i
    gotoErrs |-> << >>, \* safeGoto: the errors page.goto threw, in order
    waits |-> 0,       \* safeGoto: ms it has spent on its timers
    thrown |-> "",     \* what the rendering path threw for this record
    browser |-> FALSE, \* puppeteerCheck: the browser it launched is open
    leaks |-> << >>,   \* per record fetched: was its browser left open
    calls |-> << >>,   \* per record fetched: how its two paths went
    pages |-> << >>,   \* products: pages
    req |-> << >>,     \* the button or select interaction being handled
    newPage |-> 0,     \* navigation: newPage
    docs |-> << >> ]   \* add wizard: the products of the command or the call

Scanning(h) ==
  pc[h] \in { "render", "goto", "backoff", "evaluate", "fallback" }

\* The answer the step just taken gave to a user, with what the handler saw
\* (observation only; NoAnswer after a step that answers nothing).
NoAnswer ==
  [ h |-> 0, cmd |-> "", kind |-> "", id |-> 0, input |-> << >>,
    pre |-> << >>, post |-> << >>, preFile |-> << >>, postFile |-> << >>,
    wrote |-> FALSE, removed |-> << >>,
    shown |-> << >>, scanned |-> FALSE, clean |-> TRUE,
    fails |-> << >>, fromCache |-> FALSE, snapTs |-> 0, at |-> 0,
    calls |-> << >>, arg |-> << >>, value |-> << >> ]

Answer(h, command, kind) ==
  [ NoAnswer EXCEPT !.h = h, !.cmd = command, !.kind = kind,
      !.pre = Serialize(objs, products), !.preFile = file, !.at = now ]

\* References are opaque: after every step the objects are renamed in the
\* order in which the array `products` and then the running scans refer to
\* them, and objects nothing refers to are dropped.
RECURSIVE HeldBy(_, _)
HeldBy(l, h) ==
  IF h = 0 THEN << >>
  ELSE HeldBy(l, h - 1) \o l[h].arr
         \o (IF l[h].site = 0 THEN << >> ELSE << l[h].site >>)
RECURSIVE Distinct(_, _)
Distinct(seq, acc) ==
  IF seq = << >> THEN acc
  ELSE Distinct(Tail(seq),
                IF InSeq(Head(seq), acc) THEN acc ELSE Append(acc, Head(seq)))
Canon(hp, arr, l) ==
  LET order == Distinct(arr \o HeldBy(l, NumHandlers), << >>)
      Rank(o) == PositionIn(order, o)
  IN  [ hp |-> [ k \in 1..Len(order) |-> hp[order[k]] ],
        arr |-> [ i \in 1..Len(arr) |-> Rank(arr[i]) ],
        l |-> [ h \in Handlers |->
                  [ l[h] EXCEPT
                      !.arr = [ i \in 1..Len(l[h].arr) |-> Rank(l[h].arr[i]) ],
                      !.site = IF l[h].site = 0 THEN 0 ELSE Rank(l[h].site) ] ] ]

\* A running scan notes that the store changed under it.
Touch(l, changed) ==
  [ h \in Handlers |->
      IF changed /\ Scanning(h) THEN [ l[h] EXCEPT !.clean = FALSE ]
      ELSE l[h] ]

\* `products = products.filter(...)` names a new array: an iterator created
\* on the old one keeps iterating the old one.
Detach(l, old) ==
  [ h \in Handlers |->
      IF Scanning(h) /\ l[h].live
      THEN [ l[h] EXCEPT !.live = FALSE, !.arr = old ]
      ELSE l[h] ]

\* The end of a store command: handler h leaves heap hp, array arr and file
\* content f behind, has answered ans and returns.
Return(h, hp, arr, f, l, ans) ==
  \E c \in { Canon(hp, arr,
                   [ Touch(l, Serialize(hp, arr) # Serialize(objs, products))
                       EXCEPT ![h] = Blank ]) } :
      /\ products' = c.arr
      /\ objs' = c.hp
      /\ file' = f
      /\ loc' = c.l
      /\ pc' = [ pc EXCEPT ![h] = "idle" ]
      /\ last' = [ ans EXCEPT !.post = Serialize(hp, arr), !.postFile = f ]
      /\ UNCHANGED << elsewhere, lastScrapeResults, scrapeCacheTimestamp, now,
                      inflight >>

\* ------------------------------------------- scraper bot: the handler ----
\* client.on("interactionCreate") for a chat command: the handler suspends at
\* `await interaction.deferReply()` before it has read anything, so when it
\* arrived is immaterial and its run from that await on is the first step
\* that shows.  (help replies at once and touches no state.)  Handlers are
\* anonymous: the lowest idle one is taken.
InteractionCreate(h) ==
  /\ pc[h] = "idle"
  /\ \A g \in Handlers : g < h => pc[g] # "idle"

\* command === "addlink"
Addlink(h, inputs) ==
  /\ InteractionCreate(h)
  /\ \E in \in inputs :
       LET id == generateProductId(objs, products)
           p == Push(objs, products,
                     [ id |-> id, name |-> in.name, url |-> in.url ])
       IN  IF in.name = "" \/ in.url = ""
           THEN Return(h, objs, products, file, loc, Answer(h, "addlink", "required"))
           ELSE IF id = 0
           THEN Return(h, objs, products, file, loc, Answer(h, "addlink", "maxlimit"))
           ELSE Return(h, p.hp, p.arr, Serialize(p.hp, p.arr), loc,
                       [ Answer(h, "addlink", "added") EXCEPT !.id = id, !.wrote = TRUE ])

\* command === "removelink"
Removelink(h) ==
  /\ InteractionCreate(h)
  /\ \E id \in 1..(IdLimit + 1) :
       LET index == findIndex(objs, products, id)
           spliced == Splice(products, index)
           r == reorganizeIds(objs, spliced)
       IN  IF index = 0
           THEN Return(h, objs, products, file, loc,
                       [ Answer(h, "removelink", "notfound") EXCEPT !.id = id ])
           ELSE Return(h, r.hp, r.arr, Serialize(r.hp, r.arr), loc,
                       [ Answer(h, "removelink", "removed") EXCEPT !.id = id, !.wrote = TRUE,
                           !.removed = << objs[products[index]] >> ])

\* command === "bulkremovelink"
Bulkremovelink(h, inputs) ==
  /\ InteractionCreate(h)
  /\ \E idsInput \in inputs :
       LET idsToRemove == ParseIds(idsInput)
           validIds == UsedIds(objs, products)
           invalidIds == SelectSeq(idsToRemove, LAMBDA id : id \notin validIds)
           kept == Filter(objs, products, idsToRemove)
           removedProducts ==
             Serialize(objs, SelectSeq(products,
                         LAMBDA o : InSeq(objs[o].id, idsToRemove)))
           r == reorganizeIds(objs, kept)
       IN  IF InSeq(NaN, idsToRemove)
           THEN Return(h, objs, products, file, loc,
                       [ Answer(h, "bulkremovelink", "invalidformat") EXCEPT !.input = idsInput ])
           ELSE IF invalidIds # << >>
           THEN Return(h, objs, products, file, loc,
                       [ Answer(h, "bulkremovelink", "invalidids") EXCEPT !.input = idsInput ])
           ELSE Return(h, r.hp, r.arr, Serialize(r.hp, r.arr),
                       Detach(loc, products),
                       [ Answer(h, "bulkremovelink", "bulkremoved") EXCEPT !.input = idsInput,
                           !.wrote = TRUE, !.removed = removedProducts ])

\* command === "bulklink", up to `await fetch(attachment.url)`
BulklinkFetch(h) ==
  /\ InteractionCreate(h)
  /\ \E json \in BOOLEAN :
       IF ~json
       THEN Return(h, objs, products, file, loc, Answer(h, "bulklink", "invalidfile"))
       ELSE /\ pc' = [ pc EXCEPT ![h] = "fetch" ]
            /\ last' = NoAnswer
            /\ UNCHANGED << elsewhere, products, objs, file,
                            lastScrapeResults, scrapeCacheTimestamp, now, loc, inflight >>

\* bulklink: for (const product of jsonData) { ... }.  Every item is pushed
\* as it is read; when no id is left the handler answers and returns at once.
RECURSIVE BulklinkLoop(_, _, _, _)
BulklinkLoop(hp, arr, jsonData, i) ==
  IF i > Len(jsonData) THEN [ hp |-> hp, arr |-> arr, full |-> FALSE ]
  ELSE LET id == generateProductId(hp, arr)
           product == jsonData[i]
           p == Push(hp, arr,
                     [ id |-> id,
                       name |-> IF product.name = "" THEN "Unnamed"
                                ELSE product.name,
                       url |-> product.url ])
       IN  IF id = 0 THEN [ hp |-> hp, arr |-> arr, full |-> TRUE ]
           ELSE BulklinkLoop(p.hp, p.arr, jsonData, i + 1)

\* bulklink, from the download's completion (fetch and response.json()) on
BulklinkImport(h) ==
  /\ pc[h] = "fetch"
  /\ \E att \in Attachments :
       /\ att.json
       /\ LET b == BulklinkLoop(objs, products, att.data, 1)
          IN  IF ~att.ok
              THEN Return(h, objs, products, file, loc, Answer(h, "bulklink", "error"))
              ELSE IF ~att.isArray
              THEN Return(h, objs, products, file, loc, Answer(h, "bulklink", "notarray"))
              ELSE IF b.full
              THEN Return(h, b.hp, b.arr, file, loc, Answer(h, "bulklink", "maxlimit"))
              ELSE Return(h, b.hp, b.arr, Serialize(b.hp, b.arr), loc,
                          [ Answer(h, "bulklink", "bulkadded") EXCEPT !.wrote = TRUE ])

\* --------------------------------------------- scraper bot: the scan ----
\* How one extraction path ends: with what the selectors matched, or thrown.
Outcomes ==
  { [ ok |-> FALSE, price |-> "", stock |-> "" ] }
    \cup { [ ok |-> TRUE, price |-> e.price, stock |-> e.stock ] : e \in Extracts }

\* An extraction is started for record number n of handler h's scan ...
Launch(fl, h, n, path) == fl \cup { [ h |-> h, n |-> n, path |-> path ] }
\* A plausible slip: the extraction is not awaited, the scan goes on while
\* it is still running.
Land_NotAwaited(fl, h) == fl
\* ... and has settled when the handler resumes from `await`.
Land(fl, h) == { f \in fl : f.h # h }

\* results.push({ id: site.id, name: site.name, url: site.url, price, stock })
OkResult(site, out) ==
  [ id |-> site.id, name |-> site.name, url |-> site.url,
    price |-> out.price, stock |-> out.stock, error |-> "" ]
\* A plausible slip: the failure is swallowed into an ordinary result.
ErrorResult_Swallowed(site, message) ==
  [ id |-> site.id, name |-> site.name, url |-> site.url,
    price |-> "N/A", stock |-> "N/A", error |-> "" ]
\* results.push({ id: site.id, name: site.name, url: site.url, error })
ErrorResult(site, message) ==
  [ id |-> site.id, name |-> site.name, url |-> site.url,
    price |-> "", stock |-> "", error |-> message ]

\* results.filter(p => p.error)
Errors(results) == SelectSeq(results, LAMBDA p : p.error # "")

\* getPriceData() serves the cache unless
\* now - scrapeCacheTimestamp > CACHE_DURATION || lastScrapeResults.length === 0
CacheValid(t, ts, cached) == ~(t - ts > CACHE_DURATION \/ Len(cached) = 0)

\* What the command answers once it has its results.
ScanAnswerKind(command, results) ==
  CASE command = "products" ->
         IF Len(results) = 0 THEN "noproducts" ELSE "status"
    [] command = "invalid" ->
         IF Errors(results) = << >> THEN "allworking" ELSE "invalid"
    [] OTHER -> "prices"
Shown(command, results) ==
  IF command = "invalid" THEN Errors(results) ELSE results

\* A plausible slip: a scan that found nothing leaves the older snapshot.
CachedResults_KeepNonEmpty(cached, results) ==
  IF results = << >> THEN cached ELSE results
\* lastScrapeResults = results
CachedResults(cached, results) == results

\* checkSites(): `for (const site of products)` takes the next element of
\* the iterated array and suspends in puppeteerCheck(site); past the last
\* element the results are cached and the command answers.  `me` is handler
\* h's local state and fl the extractions in flight when the loop head is
\* reached.
ScanLoop(h, me, fl) ==
  LET arr == IF me.live THEN products ELSE me.arr
      next == [ me EXCEPT !.idx = @ + 1, !.site = arr[me.idx + 1] ]
  IN
  \E c \in { Canon(objs, products,
                   [ loc EXCEPT ![h] = IF me.idx < Len(arr) THEN next
                                       ELSE Blank ]) } :
      /\ loc' = c.l
      /\ objs' = c.hp
      /\ products' = c.arr
      /\ IF me.idx < Len(arr)
         THEN /\ pc' = [ pc EXCEPT ![h] = "render" ]
              /\ inflight' = Launch(fl, h, Len(me.results) + 1, "render")
              /\ last' = NoAnswer
              /\ UNCHANGED << lastScrapeResults, scrapeCacheTimestamp >>
         ELSE /\ pc' = [ pc EXCEPT ![h] = "idle" ]
              /\ inflight' = fl
              /\ lastScrapeResults' = CachedResults(lastScrapeResults, me.results)
              /\ scrapeCacheTimestamp' = now
              /\ last' = [ Answer(h, me.cmd, ScanAnswerKind(me.cmd, me.results))
                             EXCEPT !.shown = Shown(me.cmd, me.results),
                                    !.scanned = TRUE, !.clean = me.clean,
                                    !.fails = me.fails, !.snapTs = now,
                                    !.calls = me.calls ]
      /\ UNCHANGED << elsewhere, file, now >>

\* const results = []; the iterator is created on the current array.
BeginScan(h, command) ==
  ScanLoop(h, [ loc[h] EXCEPT !.cmd = command ], inflight)

\* The command answers from lastScrapeResults without scanning.
AnswerFromCache(h, command) ==
  /\ last' = [ Answer(h, command, ScanAnswerKind(command, lastScrapeResults))
                 EXCEPT !.shown = Shown(command, lastScrapeResults),
                        !.fromCache = TRUE, !.snapTs = scrapeCacheTimestamp ]
  /\ pc' = [ pc EXCEPT ![h] = "idle" ]
  /\ loc' = [ loc EXCEPT ![h] = Blank ]
  /\ UNCHANGED << elsewhere, products, objs, file,
                  lastScrapeResults, scrapeCacheTimestamp, now, inflight >>

\* command === "products"
ProductsCmd(h) ==
  /\ InteractionCreate(h)
  /\ BeginScan(h, "products")

\* command === "invalid":
\* lastScrapeResults.length > 0 ? lastScrapeResults : await checkSites()
InvalidCmd(h) ==
  /\ InteractionCreate(h)
  /\ IF Len(lastScrapeResults) > 0 THEN AnswerFromCache(h, "invalid")
     ELSE BeginScan(h, "invalid")

\* command === "prices": getPriceData(), and when it is null the handler
\* suspends at `await interaction.editReply("Updating prices...")`
PricesCmd(h) ==
  /\ InteractionCreate(h)
  /\ IF CacheValid(now, scrapeCacheTimestamp, lastScrapeResults)
     THEN AnswerFromCache(h, "prices")
     ELSE /\ pc' = [ pc EXCEPT ![h] = "updating" ]
          /\ last' = NoAnswer
          /\ UNCHANGED << elsewhere, products, objs, file,
                          lastScrapeResults, scrapeCacheTimestamp, now, loc, inflight >>

\* prices: const results = await checkSites()
PricesRescan(h) ==
  /\ pc[h] = "updating"
  /\ BeginScan(h, "prices")

\* checkSites resumes from `await puppeteerCheck(site)`
RenderDone(h) ==
  /\ pc[h] = "render"
  /\ \E out \in Outcomes :
       LET me == loc[h]
           fl == Land(inflight, h)
       IN  IF out.ok
           THEN ScanLoop(h, [ me EXCEPT
                                !.results = Append(@, OkResult(objs[me.site], out)),
                                !.fails = Append(@, FALSE), !.site = 0 ],
                         fl)
           ELSE /\ pc' = [ pc EXCEPT ![h] = "fallback" ]
                /\ inflight' = Launch(fl, h, Len(me.results) + 1, "fallback")
                /\ last' = NoAnswer
                /\ UNCHANGED << elsewhere, products, objs, file,
                                lastScrapeResults, scrapeCacheTimestamp, now, loc >>

\* checkSites resumes from `await axiosFallback(site)`
FallbackDone(h) ==
  /\ pc[h] = "fallback"
  /\ \E out \in Outcomes :
       LET me == loc[h]
           result == IF out.ok THEN OkResult(objs[me.site], out)
                     ELSE ErrorResult(objs[me.site], FallbackError)
       IN  ScanLoop(h, [ me EXCEPT !.results = Append(@, result),
                                   !.fails = Append(@, ~out.ok), !.site = 0 ],
                    Land(inflight, h))

\* Time passes.
Tick ==
  /\ \E t \in ClockValues :
       /\ t > now
       /\ now' = t
  /\ last' = NoAnswer
  /\ UNCHANGED << elsewhere, products, objs, file,
                  lastScrapeResults, scrapeCacheTimestamp, pc, loc, inflight >>

\* ------------------------------------ combined bot: the store commands ----
\* (src/unnamed/part_001, lines 946-1385.  Its handler too suspends at
\* `await interaction.deferReply(...)` before it reads the store.)

\* case 'add'
CombinedAdd(h) ==
  /\ InteractionCreate(h)
  /\ \E in \in AddInputs :
       LET id == generateProductId(objs, products)
           p == Push(objs, products,
                     [ id |-> id, name |-> in.name, url |-> in.url ])
       IN  IF Len(products) >= IdLimit
           THEN Return(h, objs, products, file, loc,
                       Answer(h, "add", "maxlimit"))
           ELSE IF id = 0
           THEN Return(h, objs, products, file, loc, Answer(h, "add", "noids"))
           ELSE Return(h, p.hp, p.arr, Serialize(p.hp, p.arr), loc,
                       [ Answer(h, "add", "added") EXCEPT !.id = id,
                                                         !.wrote = TRUE ])

\* case 'remove': the remaining products keep their ids.
CombinedRemove(h) ==
  /\ InteractionCreate(h)
  /\ \E id \in 1..(IdLimit + 1) :
       LET index == findIndex(objs, products, id)
           spliced == Splice(products, index)
       IN  IF index = 0
           THEN Return(h, objs, products, file, loc,
                       [ Answer(h, "remove", "notfound") EXCEPT !.id = id ])
           ELSE Return(h, objs, spliced, Serialize(objs, spliced), loc,
                       [ Answer(h, "remove", "removed") EXCEPT !.id = id,
                           !.wrote = TRUE,
                           !.removed = << objs[products[index]] >> ])

\* case 'bulk', up to `await axios.get(attachment.url)`
CombinedBulkGet(h) ==
  /\ InteractionCreate(h)
  /\ \E json \in BOOLEAN :
       IF ~json
       THEN Return(h, objs, products, file, loc,
                   Answer(h, "bulk", "invalidfile"))
       ELSE /\ pc' = [ pc EXCEPT ![h] = "get" ]
            /\ last' = NoAnswer
            /\ UNCHANGED << elsewhere, products, objs, file,
                            lastScrapeResults, scrapeCacheTimestamp, now, loc, inflight >>

\* bulk: for (const item of bulkData) { ... }.  The new products are
\* collected in addedProducts; `products` is not touched inside the loop, so
\* generateProductId() sees the store as it was.  The loop is left (stopped)
\* through `await interaction.followUp(...); break`.
RECURSIVE CombinedBulkLoop(_, _, _, _, _)
CombinedBulkLoop(hp, arr, bulkData, i, addedProducts) ==
  IF i > Len(bulkData)
  THEN [ added |-> addedProducts, stopped |-> FALSE ]
  ELSE IF Len(arr) + Len(addedProducts) >= IdLimit
  THEN [ added |-> addedProducts, stopped |-> TRUE ]
  ELSE LET id == generateProductId(hp, arr)
           item == bulkData[i]
       IN  IF id = 0 THEN [ added |-> addedProducts, stopped |-> TRUE ]
           ELSE IF item.url = ""
           THEN CombinedBulkLoop(hp, arr, bulkData, i + 1, addedProducts)
           ELSE CombinedBulkLoop(hp, arr, bulkData, i + 1,
                  Append(addedProducts,
                         [ id |-> id, name |-> item.name, url |-> item.url ]))

\* products.push(...addedProducts)
RECURSIVE PushAll(_, _, _)
PushAll(hp, arr, recs) ==
  IF recs = << >> THEN [ hp |-> hp, arr |-> arr ]
  ELSE LET p == Push(hp, arr, Head(recs))
       IN  PushAll(p.hp, p.arr, Tail(recs))

\* bulk: products.push(...addedProducts); saveProducts(); editReply(...)
CombinedBulkCommit(h, addedProducts) ==
  LET p == PushAll(objs, products, addedProducts)
  IN  Return(h, p.hp, p.arr, Serialize(p.hp, p.arr), loc,
             [ Answer(h, "bulk", "bulkadded") EXCEPT !.wrote = TRUE ])

\* bulk, from the download's completion on: to the end, or to the await of
\* followUp when the loop stops
CombinedBulkImport(h) ==
  /\ pc[h] = "get"
  /\ \E att \in Attachments :
       /\ att.json
       /\ LET b == CombinedBulkLoop(objs, products, att.data, 1, << >>)
          IN  IF ~att.ok
              THEN Return(h, objs, products, file, loc,
                          Answer(h, "bulk", "error"))
              ELSE IF ~att.isArray
              THEN Return(h, objs, products, file, loc,
                          Answer(h, "bulk", "notarray"))
              ELSE IF b.stopped
              THEN /\ pc' = [ pc EXCEPT ![h] = "followUp" ]
                   /\ loc' = [ loc EXCEPT ![h].cmd = "bulk",
                                          ![h].added = b.added ]
                   /\ last' = NoAnswer
                   /\ UNCHANGED << elsewhere, products, objs, file,
                                   lastScrapeResults, scrapeCacheTimestamp, now, inflight >>
              ELSE CombinedBulkCommit(h, b.added)

\* bulk resumes from `await interaction.followUp(...)`: break, and commit
CombinedBulkFollowUp(h) ==
  /\ pc[h] = "followUp"
  /\ CombinedBulkCommit(h, loc[h].added)

\* ------------------------------------------------------- specification ----
\* products.json does not exist: products = [] and "[]" is written.
Init ==
  /\ products = << >>
  /\ objs = << >>
  /\ file = << >>
  /\ lastScrapeResults = << >>
  /\ scrapeCacheTimestamp = 0
  /\ now = StartTime
  /\ pc = [ h \in Handlers |-> "idle" ]
  /\ loc = [ h \in Handlers |-> Blank ]
  /\ inflight = { }
  /\ messageCache = << >>
  /\ interactionCache = << >>
  /\ components = << >>
  /\ cancelled = { }
  /\ processedInteractions = << >>
  /\ db = << >>
  /\ last = NoAnswer

StoreStep(h) ==
  \/ Addlink(h, AddInputs)
  \/ Removelink(h)
  \/ Bulkremovelink(h, IdsInputs)
  \/ BulklinkFetch(h)
  \/ BulklinkImport(h)

\* The scraper bot's monitor-set commands, handlers overlapping freely.
Next ==
  \E h \in Handlers : StoreStep(h)

Spec == Init /\ [][Next]_vars

\* The scraper bot's scans (command products), overlapping with each other
\* and with the commands that add and remove products.
NextScan ==
  \E h \in Handlers :
     \/ Addlink(h, ScanAddInputs)
     \/ Removelink(h)
     \/ Bulkremovelink(h, ScanIdsInputs)
     \/ ProductsCmd(h)
     \/ RenderDone(h)
     \/ FallbackDone(h)

SpecScan == Init /\ [][NextScan]_vars

\* The scraper bot's three scan commands and its cache as time passes, one
\* command at a time.
Quiet == \A h \in Handlers : pc[h] = "idle"
NextCache ==
  \/ \E h \in Handlers :
       \/ Quiet /\ Addlink(h, ScanAddInputs)
       \/ Quiet /\ ProductsCmd(h)
       \/ Quiet /\ InvalidCmd(h)
       \/ Quiet /\ PricesCmd(h)
       \/ PricesRescan(h)
       \/ RenderDone(h)
       \/ FallbackDone(h)
  \/ Tick

SpecCache == Init /\ [][NextCache]_vars

\* The combined bot's monitor-set commands, handlers overlapping freely.
NextCombined ==
  \E h \in Handlers :
     \/ CombinedAdd(h)
     \/ CombinedRemove(h)
     \/ CombinedBulkGet(h)
     \/ CombinedBulkImport(h)
     \/ CombinedBulkFollowUp(h)

SpecCombined == Init /\ [][NextCombined]_vars

\* ------------------------------------ scraper bot: the two fetch paths ----
\* async function safeGoto(page, url, retries = 3)
Retries == 3
\* await new Promise(r => setTimeout(r, 5000))
BackoffMs == 5000

\* What page.goto, the browser or axios.get can throw.
FetchErrors == { "timeout", "net::ERR_FAILED" }

\* How one awaited call of a fetch path ends.
CallOutcomes ==
  { [ ok |-> TRUE, error |-> "" ] }
    \cup { [ ok |-> FALSE, error |-> e ] : e \in FetchErrors }

\* safeGoto: if (i === retries - 1) throw e;
\* A plausible slip: the comparison never matches, the loop just runs out.
safeGotoGivesUp_Never(i, retries) == FALSE
safeGotoGivesUp(i, retries) == i = retries - 1

\* The per-record note of how the two paths went (observation only).
Call(renderOk, fallbacks, cause) ==
  [ renderOk |-> renderOk, fallbacks |-> fallbacks, cause |-> cause ]

\* The local state with which the loop of checkSites goes on to the next
\* record: the notes on the record just done are filed.
Filed(me, result, call) ==
  [ me EXCEPT !.results = Append(@, result),
              !.fails = Append(@, result.error # ""),
              !.calls = Append(@, call),
              !.leaks = Append(@, me.browser), !.browser = FALSE,
              !.site = 0, !.i = 0, !.gotoErrs = << >>, !.waits = 0,
              !.thrown = "" ]

\* checkSites: catch (puppeteerErr) { result = await axiosFallback(site); }
ToFallback(h, me, error) ==
  /\ pc' = [ pc EXCEPT ![h] = "fallback" ]
  /\ inflight' = Launch(Land(inflight, h), h, Len(me.results) + 1,
                        "fallback")
  /\ loc' = [ loc EXCEPT ![h] = [ me EXCEPT !.thrown = error ] ]
  /\ last' = NoAnswer
  /\ UNCHANGED << elsewhere, products, objs, file,
                  lastScrapeResults, scrapeCacheTimestamp, now >>

\* A step inside puppeteerCheck that stays inside it.
Within(h, where, me) ==
  /\ pc' = [ pc EXCEPT ![h] = where ]
  /\ loc' = [ loc EXCEPT ![h] = me ]
  /\ last' = NoAnswer
  /\ UNCHANGED << elsewhere, products, objs, file,
                  lastScrapeResults, scrapeCacheTimestamp, now, inflight >>

\* puppeteerCheck: launch, newPage and setUserAgent have settled; safeGoto
\* is entered and suspends in its first page.goto.  When one of the three
\* throws, it is the launch (no browser) or a call on the launched browser.
PuppeteerOpened(h) ==
  /\ pc[h] = "render"
  /\ \E out \in CallOutcomes, launched \in BOOLEAN :
       IF out.ok
       THEN /\ launched
            /\ Within(h, "goto", [ loc[h] EXCEPT !.i = 0, !.gotoErrs = << >>,
                                                 !.waits = 0,
                                                 !.browser = TRUE ])
       ELSE ToFallback(h, [ loc[h] EXCEPT !.browser = launched ], out.error)

\* safeGoto resumes from `await page.goto(...)`
GotoDone(h) ==
  /\ pc[h] = "goto"
  /\ \E out \in CallOutcomes :
       LET me == loc[h]
       IN  IF out.ok
           THEN Within(h, "evaluate", me)
           ELSE IF safeGotoGivesUp(me.i, Retries)
           THEN ToFallback(h, [ me EXCEPT !.gotoErrs = Append(@, out.error) ],
                           out.error)
           ELSE Within(h, "backoff",
                       [ me EXCEPT !.gotoErrs = Append(@, out.error) ])

\* safeGoto resumes from the timer: i++, and the loop goes on while
\* i < retries
BackoffDone(h) ==
  /\ pc[h] = "backoff"
  /\ LET me == [ loc[h] EXCEPT !.i = @ + 1, !.waits = @ + BackoffMs ]
     IN  IF me.i < Retries THEN Within(h, "goto", me)
         ELSE Within(h, "evaluate", me)

\* await browser.close()
BrowserClosed(me) == [ me EXCEPT !.browser = FALSE ]

\* puppeteerCheck resumes from page.evaluate(...) and browser.close(), and
\* checkSites from `await puppeteerCheck(site)`
EvaluateDone(h) ==
  /\ pc[h] = "evaluate"
  /\ \E out \in CallOutcomes, e \in Extracts :
       IF out.ok
       THEN ScanLoop(h, Filed(BrowserClosed(loc[h]),
                              OkResult(objs[loc[h].site],
                                       [ ok |-> TRUE, price |-> e.price,
                                         stock |-> e.stock ]),
                              Call(TRUE, 0, "")),
                     Land(inflight, h))
       ELSE ToFallback(h, loc[h], out.error)

\* axiosFallback resumes from `await axios.get(...)`: the selectors' text,
\* or catch (err) { throw new Error("Fallback error"); }, which checkSites
\* catches and files as the record's error.
AxiosFallbackDone(h) ==
  /\ pc[h] = "fallback"
  /\ \E out \in CallOutcomes, e \in Extracts :
       LET site == objs[loc[h].site]
           result == IF out.ok
                     THEN OkResult(site, [ ok |-> TRUE, price |-> e.price,
                                           stock |-> e.stock ])
                     ELSE ErrorResult(site, FallbackError)
       IN  ScanLoop(h, Filed(loc[h], result, Call(FALSE, 1, out.error)),
                    Land(inflight, h))

\* Combined bot, axiosFallback:
\* throw new Error("Fallback axios error: " + err.message)
CombinedFallbackError(reason) ==
  CASE reason = "timeout" -> "Fallback axios error: timeout"
    [] reason = "net::ERR_FAILED" -> "Fallback axios error: net::ERR_FAILED"

\* One handler at a time: products is scanned with both paths shown step by
\* step, addlink fills the store between scans.
NextFetch ==
  \E h \in Handlers :
    \/ Quiet /\ Addlink(h, ScanAddInputs)
    \/ Quiet /\ ProductsCmd(h)
    \/ PuppeteerOpened(h)
    \/ GotoDone(h)
    \/ BackoffDone(h)
    \/ EvaluateDone(h)
    \/ AxiosFallbackDone(h)

SpecFetch == Init /\ [][NextFetch]_vars

\* ------------------------------------------ scraper bot: price parsing ----
\* Longest price text examined, over the characters of PriceChars.
MaxPriceLen == 4
PriceChars == { "1", "0", ",", ".", "$" }
RECURSIVE StringsUpTo(_, _)
StringsUpTo(chars, n) ==
  IF n = 0 THEN { << >> }
  ELSE LET shorter == StringsUpTo(chars, n - 1)
       IN  shorter \cup { Append(t, c) : t \in shorter, c \in chars }
\* Price texts: every short one, and some of the shapes shops print.
PriceStrings ==
  StringsUpTo(PriceChars, MaxPriceLen)
    \cup { << "1", ".", "2", "3", "4", ",", "5", "6" >>,
           << "1", ",", "2", "3", "4", ".", "5", "6" >>,
           << "N", "/", "A" >>,
           << "1", ",", "2", "3", "4", ",", "5", "6", "7" >>,
           << "$", "1", "2", ".", "5", "0" >> }

\* JavaScript values of parsePrice: null, NaN, or the number num / 10^scale
\* (kept with no trailing zero in the fraction, so equal numbers are equal).
Null == [ kind |-> "null", num |-> 0, scale |-> 0 ]
NotANumber == [ kind |-> "NaN", num |-> 0, scale |-> 0 ]
RECURSIVE Number(_, _)
Number(num, scale) ==
  IF scale > 0 /\ num % 10 = 0 THEN Number(num \div 10, scale - 1)
  ELSE [ kind |-> "number", num |-> num, scale |-> scale ]

\* The longest prefix of str made of digits.
RECURSIVE DigitPrefix(_)
DigitPrefix(str) ==
  IF str # << >> /\ Head(str) \in Digits
  THEN << Head(str) >> \o DigitPrefix(Tail(str))
  ELSE << >>

\* parseFloat(str) for a text of digits, '.' and ',': the longest prefix
\* digits [ '.' digits ] with a digit in it; NaN when there is none.
parseFloat(str) ==
  LET whole == DigitPrefix(str)
      rest == SubSeq(str, Len(whole) + 1, Len(str))
      frac == IF rest # << >> /\ Head(rest) = "."
              THEN DigitPrefix(Tail(rest)) ELSE << >>
  IN  IF whole = << >> /\ frac = << >> THEN NotANumber
      ELSE Number(ParseDigits(whole \o frac, 1, 0), Len(frac))

\* String.prototype.lastIndexOf(ch): counted from 0, -1 when ch is absent.
lastIndexOf(str, ch) ==
  LET at == { k \in 1..Len(str) : str[k] = ch }
  IN  IF at = { } THEN 0 - 1
      ELSE (CHOOSE k \in at : \A j \in at : j <= k) - 1

\* str.replace(/\./g, '') and str.replace(/,/g, ''): every ch is removed.
RemoveAll(str, ch) == SelectSeq(str, LAMBDA c : c # ch)
\* str.replace(',', '.'): a string pattern replaces the FIRST occurrence only.
ReplaceFirst(str, from, to) ==
  LET at == { k \in 1..Len(str) : str[k] = from }
  IN  IF at = { } THEN str
      ELSE LET first == CHOOSE k \in at : \A j \in at : k <= j
           IN  [ k \in 1..Len(str) |-> IF k = first THEN to ELSE str[k] ]

\* parsePrice(priceStr)
parsePrice(priceStr) ==
  LET cleanStr == SelectSeq(priceStr, LAMBDA c : c \in Digits \cup { ".", "," })
      lastComma == lastIndexOf(cleanStr, ",")
      lastDot == lastIndexOf(cleanStr, ".")
  IN  IF priceStr = << >> THEN Null
      ELSE IF lastComma > lastDot
      THEN parseFloat(ReplaceFirst(RemoveAll(cleanStr, "."), ",", "."))
      ELSE IF lastDot > lastComma
      THEN parseFloat(RemoveAll(cleanStr, ","))
      ELSE parseFloat(cleanStr)

\* Everything but `last`, as the bot starts.
Idle ==
  /\ products = << >>
  /\ objs = << >>
  /\ file = << >>
  /\ lastScrapeResults = << >>
  /\ scrapeCacheTimestamp = 0
  /\ now = StartTime
  /\ pc = [ h \in Handlers |-> "idle" ]
  /\ loc = [ h \in Handlers |-> Blank ]
  /\ inflight = { }
  /\ messageCache = << >>
  /\ interactionCache = << >>
  /\ components = << >>
  /\ cancelled = { }
  /\ processedInteractions = << >>
  /\ db = << >>

\* A price text is given ...
InitPrice ==
  /\ Idle
  /\ \E str \in PriceStrings :
       last = [ NoAnswer EXCEPT !.cmd = "parsePrice", !.arg = str ]

\* ... and parsed.
ParsePriceCall ==
  /\ last.cmd = "parsePrice" /\ last.kind = ""
  /\ last' = [ last EXCEPT !.kind = "returned", !.value = parsePrice(last.arg) ]
  /\ UNCHANGED << elsewhere, products, objs, file,
                  lastScrapeResults, scrapeCacheTimestamp, now, pc, loc, inflight >>

SpecPrice == InitPrice /\ [][ParsePriceCall]_vars

\* ------------------------------------------ scraper bot: price ranking ----
\* Most records a ranking is computed for.
MaxRanked == 6
\* findClosestPrices(priceData, targetPrice, count = 5)
Count == 5
\* Parsed prices (priceNum) and targets, in the smallest unit of the currency.
PriceNums == { 1, 2, 4 }
Targets == { 2, 3 }

\* priceData: snapshot records with their parsed price, in snapshot order
\* (a record's id is its position there).
PriceDataOfLen(n) ==
  { [ k \in 1..n |-> [ id |-> k, priceNum |-> f[k] ] ] :
      f \in [ 1..n -> PriceNums ] }
PriceData == UNION { PriceDataOfLen(n) : n \in 0..MaxRanked }

\* Math.abs
Abs(x) == IF x < 0 THEN 0 - x ELSE x

\* Array.prototype.sort with a comparator a.key - b.key: a stable sort.
\* A plausible slip: a sort that is not stable (equal keys change places).
RECURSIVE InsertKeyed_Unstable(_, _)
InsertKeyed_Unstable(sorted, e) ==
  IF sorted = << >> THEN << e >>
  ELSE IF e.key <= Head(sorted).key THEN << e >> \o sorted
  ELSE << Head(sorted) >> \o InsertKeyed_Unstable(Tail(sorted), e)
RECURSIVE InsertKeyed(_, _)
InsertKeyed(sorted, e) ==
  IF sorted = << >> THEN << e >>
  ELSE IF e.key < Head(sorted).key THEN << e >> \o sorted
  ELSE << Head(sorted) >> \o InsertKeyed(Tail(sorted), e)
RECURSIVE SortKeyedFrom(_, _)
SortKeyedFrom(keyed, n) ==
  IF n = 0 THEN << >>
  ELSE InsertKeyed(SortKeyedFrom(keyed, n - 1), keyed[n])
\* The items of `keyed` (pairs of key and item) in ascending order of key.
SortKeyed(keyed) ==
  LET sorted == SortKeyedFrom(keyed, Len(keyed))
  IN  [ k \in 1..Len(sorted) |-> sorted[k].item ]

\* Array.prototype.slice(0, count)
Slice(arr, count) ==
  SubSeq(arr, 1, IF Len(arr) < count THEN Len(arr) ELSE count)

\* findClosestPrices(priceData, targetPrice, count)
findClosestPrices(priceData, targetPrice, count) ==
  LET withDifference ==
        [ k \in 1..Len(priceData) |->
            [ id |-> priceData[k].id, priceNum |-> priceData[k].priceNum,
              difference |-> Abs(priceData[k].priceNum - targetPrice) ] ]
  IN  IF Len(priceData) = 0 THEN << >>
      ELSE Slice(SortKeyed([ k \in 1..Len(withDifference) |->
                               [ key |-> withDifference[k].difference,
                                 item |-> withDifference[k] ] ]),
                 count)

InitClosest ==
  /\ Idle
  /\ \E priceData \in PriceData, targetPrice \in Targets :
       last = [ NoAnswer EXCEPT !.cmd = "findClosestPrices",
                  !.arg = [ priceData |-> priceData,
                            targetPrice |-> targetPrice ] ]

FindClosestPricesCall ==
  /\ last.cmd = "findClosestPrices" /\ last.kind = ""
  /\ last' = [ last EXCEPT !.kind = "returned",
                 !.value = findClosestPrices(last.arg.priceData,
                                             last.arg.targetPrice, Count) ]
  /\ UNCHANGED << elsewhere, products, objs, file,
                  lastScrapeResults, scrapeCacheTimestamp, now, pc, loc, inflight >>

SpecClosest == InitClosest /\ [][FindClosestPricesCall]_vars

\* ------------------------------- scraper bot: the records that are ranked ----
\* Longest snapshot whose price data is built.
MaxSnapshot == 3
\* The price texts of scan results; << >> is the missing price of an
\* error-shaped result.
PriceTexts ==
  { << >>, << "N", "/", "A" >>, << "0" >>, << "$", "0", ".", "0", "0" >>,
    << "1", ".", "5" >>, << "$", "1", "0" >> }
SnapshotsOfLen(n) ==
  { [ k \in 1..n |-> [ id |-> k, price |-> f[k] ] ] :
      f \in [ 1..n -> PriceTexts ] }
Snapshots == UNION { SnapshotsOfLen(n) : n \in 0..MaxSnapshot }

\* isNaN(v): v is converted to a number first, null to 0.
isNaN(v) == v.kind = "NaN"
\* v || null: null when v is falsy (null, NaN, 0), else v.
OrNull(v) ==
  IF v.kind \in { "null", "NaN" } \/ (v.kind = "number" /\ v.num = 0)
  THEN Null ELSE v

\* getPriceData(), the cache being valid:
\* lastScrapeResults.map(p => ({...p, priceNum: isNaN(priceNum) ? null :
\* priceNum})).filter(p => p.priceNum !== null)
getPriceData(cached) ==
  LET mapped == [ k \in 1..Len(cached) |->
                    [ id |-> cached[k].id, price |-> cached[k].price,
                      priceNum |-> IF isNaN(parsePrice(cached[k].price))
                                   THEN Null
                                   ELSE parsePrice(cached[k].price) ] ]
  IN  SelectSeq(mapped, LAMBDA p : p.priceNum # Null)

\* prices, after a rescan:
\* results.map(p => ({...p, priceNum: parsePrice(p.price) || null}))
\*        .filter(p => p.priceNum !== null)
RescanPriceData(results) ==
  LET mapped == [ k \in 1..Len(results) |->
                    [ id |-> results[k].id, price |-> results[k].price,
                      priceNum |-> OrNull(parsePrice(results[k].price)) ] ]
  IN  SelectSeq(mapped, LAMBDA p : p.priceNum # Null)

InitRanked ==
  /\ Idle
  /\ \E results \in Snapshots :
       last = [ NoAnswer EXCEPT !.cmd = "priceData", !.arg = results ]

\* The price data of the same scan results on the two paths of prices.
PriceDataCall ==
  /\ last.cmd = "priceData" /\ last.kind = ""
  /\ last' = [ last EXCEPT !.kind = "returned",
                 !.value = [ cached |-> getPriceData(last.arg),
                             rescanned |-> RescanPriceData(last.arg) ] ]
  /\ UNCHANGED << elsewhere, products, objs, file,
                  lastScrapeResults, scrapeCacheTimestamp, now, pc, loc, inflight >>

SpecRanked == InitRanked /\ [][PriceDataCall]_vars

\* --------------------------------------- scraper bot: what prices shows ----
\* A plausible slip: the lower median, sorted[Math.floor((length - 1) / 2)].
findPriceRange_LowerMedian(priceData) ==
  LET sorted == SortKeyed([ k \in 1..Len(priceData) |->
                              [ key |-> priceData[k].priceNum,
                                item |-> priceData[k] ] ])
      n == Len(sorted)
  IN  IF Len(priceData) = 0 THEN << >>
      ELSE Slice((IF n > 0 THEN << sorted[1] >> ELSE << >>)
                   \o (IF n > 1 THEN << sorted[n] >> ELSE << >>)
                   \o (IF n > 2 THEN << sorted[((n - 1) \div 2) + 1] >>
                       ELSE << >>),
                 5)
\* findPriceRange(priceData); sorted[k] of the code is sorted[k + 1] here.
findPriceRange(priceData) ==
  LET sorted == SortKeyed([ k \in 1..Len(priceData) |->
                              [ key |-> priceData[k].priceNum,
                                item |-> priceData[k] ] ])
      n == Len(sorted)
  IN  IF Len(priceData) = 0 THEN << >>
      ELSE Slice((IF n > 0 THEN << sorted[1] >> ELSE << >>)
                   \o (IF n > 1 THEN << sorted[n] >> ELSE << >>)
                   \o (IF n > 2 THEN << sorted[(n \div 2) + 1] >> ELSE << >>),
                 5)

\* prices, once priceData is there: what the command answers with.
PricesAnswer(priceData, targetPrice) ==
  LET closest == findClosestPrices(priceData, targetPrice, Count)
      useRange == Len(closest) = 0 \/ closest[1].difference > 0
      resultProducts == IF useRange THEN findPriceRange(priceData)
                        ELSE closest
  IN  IF Len(priceData) = 0
      THEN [ kind |-> "novalid", shown |-> << >> ]
      ELSE IF Len(resultProducts) = 0
      THEN [ kind |-> "noproducts", shown |-> << >> ]
      ELSE [ kind |-> IF useRange THEN "range" ELSE "closest",
             shown |-> resultProducts ]

InitPrices ==
  /\ Idle
  /\ \E priceData \in PriceData, targetPrice \in Targets :
       last = [ NoAnswer EXCEPT !.cmd = "pricesAnswer",
                  !.arg = [ priceData |-> priceData,
                            targetPrice |-> targetPrice ] ]

PricesAnswerCall ==
  /\ last.cmd = "pricesAnswer" /\ last.kind = ""
  /\ LET a == PricesAnswer(last.arg.priceData, last.arg.targetPrice)
     IN  last' = [ last EXCEPT !.kind = a.kind, !.value = a.shown ]
  /\ UNCHANGED << elsewhere, products, objs, file,
                  lastScrapeResults, scrapeCacheTimestamp, now, pc, loc, inflight >>

SpecPrices == InitPrices /\ [][PricesAnswerCall]_vars

\* ------------------------------------------- scraper bot: pagination ----
\* Most results that are paginated.
MaxResults == 12
\* products: chunkArray(results, 5)
PageSize == 5
\* What tells one result from another.
ResultItems == { "x", "y" }
ResultLists ==
  UNION { [ 1..n -> ResultItems ] : n \in 0..MaxResults }

\* Array.prototype.slice(begin, end), both counted from 0, end excluded and
\* cut down to the length.
SliceFrom(arr, begin, end) ==
  SubSeq(arr, begin + 1, IF end < Len(arr) THEN end ELSE Len(arr))

\* A plausible slip: slice's end taken as inclusive, arr.slice(i, i + size - 1)
RECURSIVE chunkFrom_ShortSlice(_, _, _)
chunkFrom_ShortSlice(arr, size, i) ==
  IF i < Len(arr)
  THEN << SliceFrom(arr, i, i + size - 1) >>
         \o chunkFrom_ShortSlice(arr, size, i + size)
  ELSE << >>
\* chunkArray: for (let i = 0; i < arr.length; i += size)
\*               chunked.push(arr.slice(i, i + size))
RECURSIVE chunkFrom(_, _, _)
chunkFrom(arr, size, i) ==
  IF i < Len(arr)
  THEN << SliceFrom(arr, i, i + size) >> \o chunkFrom(arr, size, i + size)
  ELSE << >>
chunkArray(arr, size) == chunkFrom(arr, size, 0)

InitChunk ==
  /\ Idle
  /\ \E results \in ResultLists :
       last = [ NoAnswer EXCEPT !.cmd = "chunkArray", !.arg = results ]

ChunkArrayCall ==
  /\ last.cmd = "chunkArray" /\ last.kind = ""
  /\ last' = [ last EXCEPT !.kind = "returned",
                 !.value = chunkArray(last.arg, PageSize) ]
  /\ UNCHANGED << elsewhere, products, objs, file,
                  lastScrapeResults, scrapeCacheTimestamp, now, pc, loc, inflight >>

SpecChunk == InitChunk /\ [][ChunkArrayCall]_vars

\* --------------------------- scraper bot: navigating the product pages ----
\* Messages with navigation controls whose pagination state is followed.
MaxMessages == 2
\* Scan results that are paginated: lists of 1, 6, 12 and 16 results, which
\* make 1, 2, 3 and 4 pages.
NavResults ==
  { [ k \in 1..n |-> "x" ] : n \in { 0, 3, 11 } }

\* The text a navigation control carries for the page: the part of a button's
\* customId after "page_", or the first value of the select menu.
PageTexts ==
  { << "0" >>, << "2" >>, << "3" >>, << "x" >>, << >>,
    << "1", ".", "5" >> }
\* A navigation interaction: the component clicked, the message it sits on
\* (a message of an earlier run of the bot is in no cache), the page text.
NavRequests ==
  [ component : { "button", "select_page" },
    message : 1..(MaxMessages + 1),
    text : PageTexts ]

\* products, from the return of checkSites() to
\* `await interaction.editReply({ ...embedPage, components: [buttons] })`;
\* the scan is taken as done, its results being any of NavResults.
ProductsPaged(h) ==
  /\ InteractionCreate(h)
  /\ Len(messageCache) + Cardinality({ g \in Handlers : pc[g] = "reply" })
       < MaxMessages
  /\ \E results \in NavResults :
       LET pages == chunkArray(results, PageSize)
       IN  IF Len(pages) = 0
           THEN /\ last' = [ Answer(h, "products", "noproducts")
                               EXCEPT !.arg = results ]
                /\ UNCHANGED << pc, loc >>
           ELSE /\ pc' = [ pc EXCEPT ![h] = "reply" ]
                /\ loc' = [ loc EXCEPT ![h].cmd = "products",
                                       ![h].pages = pages ]
                /\ last' = [ Answer(h, "products", "status")
                               EXCEPT !.arg = results, !.value = pages[1] ]
  /\ UNCHANGED << products, objs, file, lastScrapeResults,
                  scrapeCacheTimestamp, now, inflight, messageCache,
                  interactionCache, db, components, cancelled,
                  processedInteractions >>

\* products resumes from editReply:
\* client.messageCache.set(message.id, { pages, currentPage: 0, interaction })
ProductsCached(h) ==
  /\ pc[h] = "reply"
  /\ messageCache' = Append(messageCache,
                            [ pages |-> loc[h].pages, currentPage |-> 0 ])
  /\ pc' = [ pc EXCEPT ![h] = "idle" ]
  /\ loc' = [ loc EXCEPT ![h] = Blank ]
  /\ last' = NoAnswer
  /\ UNCHANGED << products, objs, file, lastScrapeResults,
                  scrapeCacheTimestamp, now, inflight, interactionCache, db,
                  components, cancelled, processedInteractions >>

\* A button or select interaction arrives:
\* if (!client.messageCache) return; cached = ...get(interaction.message.id);
\* if (!cached) return; await interaction.deferUpdate();
NavigateArrive(h) ==
  /\ InteractionCreate(h)
  /\ \E req \in NavRequests :
       IF req.message \notin 1..Len(messageCache)
       THEN /\ last' = [ Answer(h, "navigate", "unanswered")
                           EXCEPT !.arg = req, !.value = << >> ]
            /\ UNCHANGED << pc, loc >>
       ELSE /\ pc' = [ pc EXCEPT ![h] = "deferUpdate" ]
            /\ loc' = [ loc EXCEPT ![h].cmd = "navigate", ![h].req = req ]
            /\ last' = NoAnswer
  /\ UNCHANGED << products, objs, file, lastScrapeResults,
                  scrapeCacheTimestamp, now, inflight, messageCache,
                  interactionCache, db, components, cancelled,
                  processedInteractions >>

\* The handler resumes from deferUpdate: newPage is parsed, and
\* createPageEmbed(cached.pages[newPage], ...) throws a TypeError when there
\* is no such page (pageItems.map of undefined), which the handler's catch
\* answers with editReply(`Error: ${error.message}`); else the page is sent
\* with `await interaction.editReply(...)`.
NavigateDeferred(h) ==
  /\ pc[h] = "deferUpdate"
  /\ LET req == loc[h].req
         cached == messageCache[req.message]
         newPage == parseInt(req.text)
     IN  IF newPage \notin 0..(Len(cached.pages) - 1)
         THEN /\ last' = [ Answer(h, "navigate", "error")
                             EXCEPT !.arg = req, !.value = << cached >> ]
              /\ pc' = [ pc EXCEPT ![h] = "idle" ]
              /\ loc' = [ loc EXCEPT ![h] = Blank ]
         ELSE /\ last' = [ Answer(h, "navigate", "page")
                             EXCEPT !.arg = req, !.value = << cached >>,
                                    !.shown = cached.pages[newPage + 1] ]
              /\ pc' = [ pc EXCEPT ![h] = "editReply" ]
              /\ loc' = [ loc EXCEPT ![h].newPage = newPage ]
  /\ UNCHANGED << products, objs, file, lastScrapeResults,
                  scrapeCacheTimestamp, now, inflight, messageCache,
                  interactionCache, db, components, cancelled,
                  processedInteractions >>

\* A plausible slip: the page number shown to the user is stored.
Turned_OneBased(cached, newPage) ==
  [ cached EXCEPT !.currentPage = newPage + 1 ]
\* cached.currentPage = newPage
Turned(cached, newPage) == [ cached EXCEPT !.currentPage = newPage ]

\* The handler resumes from editReply: cached.currentPage = newPage;
\* client.messageCache.set(interaction.message.id, cached)
NavigateShown(h) ==
  /\ pc[h] = "editReply"
  /\ messageCache' = [ messageCache EXCEPT
                         ![loc[h].req.message] = Turned(@, loc[h].newPage) ]
  /\ pc' = [ pc EXCEPT ![h] = "idle" ]
  /\ loc' = [ loc EXCEPT ![h] = Blank ]
  /\ last' = NoAnswer
  /\ UNCHANGED << products, objs, file, lastScrapeResults,
                  scrapeCacheTimestamp, now, inflight, interactionCache, db,
                  components, cancelled, processedInteractions >>

NextNav ==
  \E h \in Handlers :
    \/ ProductsPaged(h)
    \/ ProductsCached(h)
    \/ NavigateArrive(h)
    \/ NavigateDeferred(h)
    \/ NavigateShown(h)

SpecNav == Init /\ [][NextNav]_vars

\* ------------------------------------ Firebase bot: the add wizard ---------
\* Messages whose wizard is followed.
MaxWizards == 1
CATEGORIES ==
  [ MENS |-> << "SHOES", "CLOTHES", "FRAGRANCE" >>,
    WOMENS |-> << "SHOES", "CLOTHES", "FRAGRANCE" >>,
    KIDS |-> << >>,
    TECH |-> << >>,
    JEWELRY_ACCESSORIES |-> << >>,
    MISC |-> << >>,
    MAIN |-> << >> ]

\* CATEGORIES[mainCategory]?.length > 0
HasSubcategories_Never(mainCategory) == FALSE
HasSubcategories(mainCategory) ==
  /\ mainCategory \in DOMAIN CATEGORIES
  /\ Len(CATEGORIES[mainCategory]) > 0

\* An attachment option: none, or a file with its MIME type (type, subtype)
\* and its size in bytes.
OneMB == 1048576
NoImage == [ contentType |-> << >>, size |-> 0 ]
Png(size) == [ contentType |-> << "image", "png" >>, size |-> size ]
WizardImages ==
  { NoImage, [ contentType |-> << "text", "plain" >>, size |-> 1 ],
    Png(OneMB), Png(OneMB + 1) }
\* !attachment || !attachment.contentType?.startsWith('image/')
InvalidImage(attachment) ==
  \/ attachment = NoImage
  \/ attachment.contentType = << >>
  \/ attachment.contentType[1] # "image"

\* The options of /add and of /bulk-add, with whether the member has the
\* admin role.
AddOptions ==
  [ attachment : WizardImages, admin : BOOLEAN,
    names : { << "A" >> }, prices : { << "1" >> }, links : { << "u" >> } ]
BulkLists ==
  { [ names |-> << "A", ",", "B" >>, prices |-> << "1", ",", "2" >>,
      links |-> << "u", ",", "v" >> ],
    [ names |-> << "A", ",", "B" >>, prices |-> << "1" >>,
      links |-> << "u", ",", "v" >> ],
    [ names |-> << "A", ",", "B" >>, prices |-> << "1", ",", "2" >>,
      links |-> << "u" >> ],
    [ names |-> << "A" >>, prices |-> << "1" >>, links |-> << "u" >> ],
    [ names |-> << "A", ",", "B", ",", "C", ",", "D", ",", "E", ",", "F" >>,
      prices |-> << "1", ",", "2", ",", "3", ",", "4", ",", "5", ",", "6" >>,
      links |-> << "u", ",", "v", ",", "w", ",", "x", ",", "y", ",", "z" >> ] }
BulkOptions ==
  { [ attachment |-> image, admin |-> admin, names |-> lists.names,
      prices |-> lists.prices, links |-> lists.links ] :
      image \in { NoImage, Png(OneMB) }, admin \in BOOLEAN,
      lists \in BulkLists }

\* options.getString(...).split(',').map(n => n.trim())
RECURSIVE TrimAll(_)
TrimAll(parts) ==
  IF parts = << >> THEN << >>
  ELSE << Trim(Head(parts)) >> \o TrimAll(Tail(parts))
\* names.length < 1 || names.length > 5
CountOutOfRange_UpToSix(n) == n < 1 \/ n > 6
CountOutOfRange(n) == n < 1 \/ n > 5
\* names.map((name, i) => ({ name, price: prices[i], link: links[i], ... }))
Items(names, prices, links, image) ==
  [ i \in 1..Len(names) |->
      [ name |-> names[i], price |-> prices[i], link |-> links[i],
        image |-> image ] ]

\* The options a user picks from the two selects; the member of a follow-up
\* interaction has the admin role or not.
MainChoices == { "MENS", "KIDS" }
SubChoices == { "SHOES" }
WizardRequests ==
  [ customId : { "confirm_bulk_add", "cancel_bulk_add" },
    message : 1..(MaxWizards + 1), value : { "" }, admin : BOOLEAN ]
  \cup [ customId : { "main_category" },
         message : 1..(MaxWizards + 1), value : MainChoices,
         admin : BOOLEAN ]
  \cup [ customId : { "sub_category" },
         message : 1..(MaxWizards + 1), value : SubChoices,
         admin : BOOLEAN ]

\* interactionCache holds an entry per message id; a deleted entry is Deleted.
Deleted == [ type |-> "", products |-> << >>, mainCategory |-> "" ]
\* interactionCache.has(message)
Pending(message) ==
  /\ message \in 1..Len(interactionCache)
  /\ interactionCache[message].type # ""
\* interactionCache.get(interaction.message.id), << >> when undefined
CacheGet_Stale(message) ==
  IF message \in 1..Len(interactionCache)
  THEN << interactionCache[message] >>
  ELSE << >>
CacheGet(message) ==
  IF message \in 1..Len(interactionCache) /\ interactionCache[message] # Deleted
  THEN << interactionCache[message] >>
  ELSE << >>
\* interactionCache.set(message, entry); ids that have no entry yet are
\* Deleted
CacheSet(message, entry) ==
  [ m \in 1..(IF message > Len(interactionCache) THEN message
               ELSE Len(interactionCache)) |->
      IF m = message THEN entry
      ELSE IF m <= Len(interactionCache) THEN interactionCache[m]
      ELSE Deleted ]
\* interaction.editReply({ ..., components }) on a message of this run
Show(message, customIds) ==
  IF message \in 1..Len(components)
  THEN [ components EXCEPT ![message] = customIds ]
  ELSE components
\* interactionCache.delete(interaction.message.id)
CacheDelete(message) ==
  IF message \in 1..Len(interactionCache)
  THEN [ interactionCache EXCEPT ![message] = Deleted ]
  ELSE interactionCache

\* The documents of a persistence call: each product with its categories
\* (and, for the properties only, the message of the wizard that issued the
\* call; the stored document has no such field).
WithCategory(items, mainCategory, subCategory, message) ==
  [ i \in 1..Len(items) |->
      [ name |-> items[i].name, price |-> items[i].price,
        link |-> items[i].link, image |-> items[i].image,
        mainCategory |-> mainCategory, subCategory |-> subCategory,
        wizard |-> message ] ]

WizardUnchanged ==
  UNCHANGED << products, objs, file, lastScrapeResults, scrapeCacheTimestamp,
               now, inflight, messageCache, processedInteractions >>

\* What a command is answered with before anything is cached:
\* the admin check, then case 'add' or case 'bulk-add' up to
\* `message = await interaction.editReply(...)`.
CommandAnswer(command, in) ==
  LET names == TrimAll(Split(in.names))
      prices == TrimAll(Split(in.prices))
      links == TrimAll(Split(in.links))
  IN  IF ~in.admin THEN "forbidden"
      ELSE IF InvalidImage(in.attachment) THEN "invalidimage"
      ELSE IF command = "add" THEN "selectmain"
      ELSE IF Len(names) # Len(prices) \/ Len(names) # Len(links)
      THEN "mismatch"
      ELSE IF CountOutOfRange(Len(names)) THEN "count"
      ELSE "preview"

WizardCommand(h) ==
  /\ InteractionCreate(h)
  /\ Len(components) < MaxWizards
  /\ \E command \in { "add", "bulk-add" } :
     \E in \in (IF command = "add" THEN AddOptions ELSE BulkOptions) :
       LET kind == CommandAnswer(command, in)
       IN  /\ last' = [ Answer(h, command, kind) EXCEPT !.arg = in ]
           /\ IF kind \in { "selectmain", "preview" }
              THEN /\ pc' = [ pc EXCEPT ![h] = "select" ]
                   /\ components' =
                        Append(components,
                               IF command = "add" THEN { "main_category" }
                               ELSE { "confirm_bulk_add", "cancel_bulk_add" })
                   /\ loc' = [ loc EXCEPT
                        ![h].cmd = command,
                        ![h].req = [ message |-> Len(components) + 1 ],
                        ![h].docs = Items(TrimAll(Split(in.names)),
                                          TrimAll(Split(in.prices)),
                                          TrimAll(Split(in.links)),
                                          in.attachment) ]
              ELSE UNCHANGED << pc, loc, components >>
  /\ UNCHANGED << interactionCache, db >>
  /\ UNCHANGED cancelled
  /\ WizardUnchanged

\* interactionCache.set(message.id, { type: 'single', ... }) or
\* interactionCache.set(message.id, { type: 'bulk_preview', products })
WizardCached(h) ==
  /\ pc[h] = "select"
  /\ interactionCache' =
       CacheSet(loc[h].req.message,
                [ type |-> IF loc[h].cmd = "add" THEN "single"
                           ELSE "bulk_preview",
                  products |-> loc[h].docs, mainCategory |-> "" ])
  /\ pc' = [ pc EXCEPT ![h] = "idle" ]
  /\ loc' = [ loc EXCEPT ![h] = Blank ]
  /\ last' = NoAnswer
  /\ UNCHANGED << db, components >>
  /\ UNCHANGED cancelled
  /\ WizardUnchanged

\* A button or select interaction arrives, from a component the message
\* shows (the id MaxWizards + 1 stands for a message of an earlier run of the
\* bot): every branch of the component handler starts with
\* `await interaction.deferUpdate()`.
ComponentArrive(h) ==
  /\ InteractionCreate(h)
  /\ \E req \in WizardRequests :
       /\ \/ /\ req.message \in 1..Len(components)
             /\ req.customId \in components[req.message]
          \/ req.message = MaxWizards + 1
       /\ pc' = [ pc EXCEPT ![h] = "deferred" ]
       /\ loc' = [ loc EXCEPT ![h].cmd = req.customId, ![h].req = req ]
  /\ last' = NoAnswer
  /\ UNCHANGED << interactionCache, db, components >>
  /\ UNCHANGED cancelled
  /\ WizardUnchanged

\* What a step of a component handler is observed to do: where the handler
\* stood, whether the message had an entry, what the handler looked up and
\* the documents of the call it issues.
Observed(h, cached, docs) ==
  [ from |-> pc[h], pending |-> Pending(loc[h].req.message),
    cached |-> cached, docs |-> docs ]

\* The handler ends having answered (or not) with editReply, the message
\* then showing `shown`.
WizardReturn(h, kind, cached, shown) ==
  /\ components' = shown
  /\ last' = [ Answer(h, loc[h].cmd, kind)
                 EXCEPT !.arg = loc[h].req,
                        !.value = Observed(h, cached, << >>) ]
  /\ pc' = [ pc EXCEPT ![h] = "idle" ]
  /\ loc' = [ loc EXCEPT ![h] = Blank ]

\* customId === 'confirm_bulk_add', up to the image downloads
ConfirmBulkAdd(h) ==
  /\ pc[h] = "deferred"
  /\ loc[h].cmd = "confirm_bulk_add"
  /\ LET cachedData == CacheGet(loc[h].req.message)
     IN  IF cachedData = << >> \/ cachedData[1].type # "bulk_preview"
         THEN WizardReturn(h, "expired", cachedData,
                           Show(loc[h].req.message, { }))
         ELSE /\ pc' = [ pc EXCEPT ![h] = "fetch" ]
              /\ loc' = [ loc EXCEPT ![h].docs = cachedData[1].products ]
              /\ last' = NoAnswer
              /\ UNCHANGED components
  /\ UNCHANGED << interactionCache, db >>
  /\ UNCHANGED cancelled
  /\ WizardUnchanged

\* The cache after the downloads of a confirmed preview:
\* interactionCache.set(interaction.message.id, { type: 'bulk', products })
ConfirmedCache(message, items) ==
  [ interactionCache EXCEPT ![message] =
      [ type |-> "bulk", products |-> items, mainCategory |-> "" ] ]

\* The downloads are over: the entry is set and the main category select is
\* shown; a failed download is answered by the catch.
ConfirmFetched(h) ==
  /\ pc[h] = "fetch"
  /\ \E ok \in BOOLEAN :
       IF ok
       THEN /\ interactionCache' =
                 ConfirmedCache(loc[h].req.message, loc[h].docs)
            /\ WizardReturn(h, "selectmain", << >>,
                            Show(loc[h].req.message, { "main_category" }))
       ELSE /\ WizardReturn(h, "error", << >>, components)
            /\ UNCHANGED interactionCache
  /\ UNCHANGED db
  /\ UNCHANGED cancelled
  /\ WizardUnchanged

\* customId === 'cancel_bulk_add'
CancelBulkAdd(h) ==
  /\ pc[h] = "deferred"
  /\ loc[h].cmd = "cancel_bulk_add"
  /\ interactionCache' = CacheDelete(loc[h].req.message)
  /\ WizardReturn(h, "cancelled", CacheGet(loc[h].req.message),
                  Show(loc[h].req.message, { }))
  /\ cancelled' =
       IF /\ \A i \in DOMAIN db : db[i].wizard # loc[h].req.message
          /\ \A g \in Handlers :
               pc[g] = "addProduct" => loc[g].req.message # loc[h].req.message
       THEN cancelled \cup { loc[h].req.message }
       ELSE cancelled
  /\ UNCHANGED db
  /\ WizardUnchanged

\* if (cachedData.type === 'single') ... else if (cachedData.type === 'bulk')
Committable_Any(type) == TRUE
Committable(type) == type \in { "single", "bulk" }

\* `await addProduct(...)` or `await bulkAddProducts(...)` is called.
Persist(h, cachedData, mainCategory, subCategory) ==
  LET docs == WithCategory(cachedData[1].products, mainCategory, subCategory,
                           loc[h].req.message)
  IN  /\ pc' = [ pc EXCEPT ![h] = "addProduct" ]
      /\ loc' = [ loc EXCEPT ![h].docs = docs ]
      /\ UNCHANGED components
      /\ last' = [ Answer(h, loc[h].cmd, "persisting")
                     EXCEPT !.arg = loc[h].req,
                            !.value = Observed(h, cachedData, docs) ]

\* customId === 'main_category'
MainCategory(h) ==
  /\ pc[h] = "deferred"
  /\ loc[h].cmd = "main_category"
  /\ LET message == loc[h].req.message
         mainCategory == loc[h].req.value
         cachedData == CacheGet(message)
     IN  IF cachedData = << >>
         THEN /\ WizardReturn(h, "expired", cachedData, components)
              /\ UNCHANGED interactionCache
         ELSE /\ interactionCache' =
                   [ interactionCache EXCEPT
                       ![message].mainCategory = mainCategory ]
              /\ IF HasSubcategories(mainCategory)
                 THEN WizardReturn(h, "selectsub", cachedData,
                                   Show(message, { "sub_category" }))
                 ELSE IF Committable(cachedData[1].type)
                 THEN Persist(h, cachedData, mainCategory, "")
                 ELSE WizardReturn(h, "unanswered", cachedData, components)
  /\ UNCHANGED db
  /\ UNCHANGED cancelled
  /\ WizardUnchanged

\* customId === 'sub_category'
SubCategory(h) ==
  /\ pc[h] = "deferred"
  /\ loc[h].cmd = "sub_category"
  /\ LET subCategory == loc[h].req.value
         cachedData == CacheGet(loc[h].req.message)
     IN  IF cachedData = << >> \/ cachedData[1].mainCategory = ""
         THEN WizardReturn(h, "expired", cachedData, components)
         ELSE IF Committable(cachedData[1].type)
         THEN Persist(h, cachedData, cachedData[1].mainCategory, subCategory)
         ELSE WizardReturn(h, "unanswered", cachedData, components)
  /\ UNCHANGED << interactionCache, db >>
  /\ UNCHANGED cancelled
  /\ WizardUnchanged

\* The cache after a persistence call that threw: the catch only answers.
CacheAfterFailure_Deleted(message) == CacheDelete(message)
CacheAfterFailure(message) == interactionCache

\* addProduct / bulkAddProducts has settled: the documents are in the
\* collection (all of a batch at once), the entry is deleted and the user is
\* told; or the call threw ('Failed to add product') and the catch answers.
PersistDone(h) ==
  /\ pc[h] = "addProduct"
  /\ \E ok \in BOOLEAN :
       IF ok
       THEN /\ db' = db \o loc[h].docs
            /\ interactionCache' = CacheDelete(loc[h].req.message)
            /\ components' = Show(loc[h].req.message, { })
            /\ last' = [ Answer(h, loc[h].cmd, "added")
                           EXCEPT !.arg = loc[h].req,
                                  !.value = Observed(h, << >>, loc[h].docs) ]
       ELSE /\ last' = [ Answer(h, loc[h].cmd, "error")
                           EXCEPT !.arg = loc[h].req,
                                  !.value = Observed(h, << >>, << >>) ]
            /\ interactionCache' = CacheAfterFailure(loc[h].req.message)
            /\ UNCHANGED << db, components >>
  /\ pc' = [ pc EXCEPT ![h] = "idle" ]
  /\ loc' = [ loc EXCEPT ![h] = Blank ]
  /\ UNCHANGED cancelled
  /\ WizardUnchanged

NextWizard ==
  \E h \in Handlers :
    \/ WizardCommand(h)
    \/ WizardCached(h)
    \/ ComponentArrive(h)
    \/ ConfirmBulkAdd(h)
    \/ ConfirmFetched(h)
    \/ CancelBulkAdd(h)
    \/ MainCategory(h)
    \/ SubCategory(h)
    \/ PersistDone(h)

SpecWizard == Init /\ [][NextWizard]_vars

\* A category selection arrives on a message that does not show that select:
\* Discord delivers none, and only the handler's own tests of the entry
\* stand between such an interaction and the collection.
StrayComponentArrive(h) ==
  /\ InteractionCreate(h)
  /\ \E req \in WizardRequests :
       /\ req.message \in 1..Len(components)
       /\ req.customId \in { "main_category", "sub_category" }
       /\ req.customId \notin components[req.message]
       /\ req.admin
       /\ pc' = [ pc EXCEPT ![h] = "deferred" ]
       /\ loc' = [ loc EXCEPT ![h].cmd = req.customId, ![h].req = req ]
  /\ last' = NoAnswer
  /\ UNCHANGED << interactionCache, db, components >>
  /\ UNCHANGED cancelled
  /\ WizardUnchanged

NextWizardStray ==
  \E h \in Handlers :
    \/ WizardCommand(h)
    \/ WizardCached(h)
    \/ ComponentArrive(h)
    \/ StrayComponentArrive(h)
    \/ ConfirmBulkAdd(h)
    \/ ConfirmFetched(h)
    \/ CancelBulkAdd(h)
    \/ MainCategory(h)
    \/ SubCategory(h)
    \/ PersistDone(h)

SpecWizardStray == Init /\ [][NextWizardStray]_vars

\* --------------------------- combined bot: interactions handled once ------
\* Deliveries followed, and how many of them deliver an id again.
MaxDeliveries == 103
MaxRepeats == 2
\* if (processedInteractions.size > 100): keep only last 100
ProcessedCap == 100

\* entries.slice(0, entries.length - 100).forEach(id => ...delete(id))
Evict_Newest(entries) ==
  IF Len(entries) > ProcessedCap THEN SubSeq(entries, 1, ProcessedCap)
  ELSE entries
Evict(entries) ==
  IF Len(entries) > ProcessedCap
  THEN SubSeq(entries, Len(entries) - ProcessedCap + 1, Len(entries))
  ELSE entries

\* The ids delivered so far and, of them, those handled (observation only).
Deliveries == IF last.value = << >> THEN << >> ELSE last.value.received
Handled == IF last.value = << >> THEN << >> ELSE last.value.handled

\* An interaction is delivered, with a new id or with the id of the first
\* one again: the entry of the handler up to its first await.
InteractionReceived ==
  /\ Len(Deliveries) < MaxDeliveries
  /\ \E id \in { 1, Cardinality(Range(Deliveries)) + 1 } :
       /\ id \in Range(Deliveries) =>
            Len(Deliveries) - Cardinality(Range(Deliveries)) < MaxRepeats
       /\ IF InSeq(id, processedInteractions)
          THEN /\ last' = [ NoAnswer EXCEPT
                             !.cmd = "interactionCreate", !.kind = "skipped",
                             !.id = id,
                             !.value = [ received |-> Append(Deliveries, id),
                                         handled |-> Handled ] ]
               /\ UNCHANGED processedInteractions
          ELSE /\ last' = [ NoAnswer EXCEPT
                             !.cmd = "interactionCreate", !.kind = "handled",
                             !.id = id,
                             !.value = [ received |-> Append(Deliveries, id),
                                         handled |-> Append(Handled, id) ] ]
               /\ processedInteractions' =
                    Evict(Append(processedInteractions, id))
  /\ UNCHANGED << products, objs, file, lastScrapeResults,
                  scrapeCacheTimestamp, now, pc, loc, inflight, messageCache,
                  interactionCache, db, components, cancelled >>

SpecProcessed == Init /\ [][InteractionReceived]_vars

\* ------------------- scraper bot: scans while products are removed ------
\* products.json as loaded at startup: two records that differ in name.
LoadedProducts ==
  << [ id |-> 1, name |-> "a", url |-> "ua" ],
     [ id |-> 2, name |-> "b", url |-> "ub" ] >>

InitScanRemove ==
  /\ products = << 1, 2 >>
  /\ objs = LoadedProducts
  /\ file = LoadedProducts
  /\ lastScrapeResults = << >>
  /\ scrapeCacheTimestamp = 0
  /\ now = StartTime
  /\ pc = [ h \in Handlers |-> "idle" ]
  /\ loc = [ h \in Handlers |-> Blank ]
  /\ inflight = { }
  /\ messageCache = << >>
  /\ interactionCache = << >>
  /\ components = << >>
  /\ cancelled = { }
  /\ processedInteractions = << >>
  /\ db = << >>
  /\ last = NoAnswer

NextScanRemove ==
  \E h \in Handlers :
     \/ Removelink(h)
     \/ Bulkremovelink(h, ScanIdsInputs)
     \/ ProductsCmd(h)
     \/ RenderDone(h)
     \/ FallbackDone(h)

SpecScanRemove == InitScanRemove /\ [][NextScanRemove]_vars

\* ----------------- scraper bot: overlapping scans as time passes ---------
NextOverlap ==
  \/ \E h \in Handlers :
       \/ Addlink(h, ScanAddInputs)
       \/ Removelink(h)
       \/ ProductsCmd(h)
       \/ RenderDone(h)
       \/ FallbackDone(h)
  \/ Tick

SpecOverlap == Init /\ [][NextOverlap]_vars

\* ------------------- combined bot: acknowledging an interaction ----------
\* (src/unnamed/part_001, lines 946-1385.)
ScanCommands == { "update", "invalid", "prices" }
AckCommands == ScanCommands \cup { "add", "help" }

\* A chat command interaction as discord.js hands it over.
NewInteraction(commandName) ==
  [ commandName |-> commandName, deferred |-> FALSE, replied |-> FALSE,
    calls |-> << >> ]

\* interaction.deferReply(): discord.js rejects it for an interaction that
\* is already deferred or replied to (InteractionAlreadyReplied), and the
\* gateway may fail it; else the interaction is deferred.
DeferReplyThrows(interaction, ok) ==
  interaction.deferred \/ interaction.replied \/ ~ok
DeferReply(interaction, ok) ==
  [ interaction EXCEPT
      !.calls = Append(@, "deferReply"),
      !.deferred = @ \/ ~DeferReplyThrows(interaction, ok) ]
\* interaction.editReply(...)
EditReply(interaction) ==
  [ interaction EXCEPT !.calls = Append(@, "editReply") ]

AckUnchanged ==
  UNCHANGED << products, objs, file, lastScrapeResults, scrapeCacheTimestamp,
               now, inflight, messageCache, interactionCache, db, components,
               cancelled, processedInteractions >>

\* The handler's answer to the interaction, and its return.
AckReturn(h, interaction, kind, scanned) ==
  /\ pc' = [ pc EXCEPT ![h] = "idle" ]
  /\ loc' = [ loc EXCEPT ![h] = Blank ]
  /\ last' = [ Answer(h, interaction.commandName, kind)
                 EXCEPT !.calls = interaction.calls, !.scanned = scanned,
                        !.arg = interaction ]
  /\ AckUnchanged

\* "Defer ALL interactions immediately":
\* if (!interaction.deferred && !interaction.replied) {
\*   try { await interaction.deferReply({ ephemeral: true }) }
\*   catch (deferError) { return; } }
UpFrontDefer(h) ==
  /\ InteractionCreate(h)
  /\ \E commandName \in AckCommands, ok \in BOOLEAN :
       LET interaction == DeferReply(NewInteraction(commandName), ok)
       IN  IF DeferReplyThrows(NewInteraction(commandName), ok)
           THEN AckReturn(h, interaction, "undeferred", FALSE)
           ELSE /\ pc' = [ pc EXCEPT ![h] = "deferred" ]
                /\ loc' = [ loc EXCEPT ![h].cmd = commandName,
                                       ![h].req = interaction ]
                /\ last' = NoAnswer
                /\ AckUnchanged

\* The handler resumes from the up-front deferral and enters the branch of
\* its command.  case 'update' / 'invalid' / 'prices' begin with
\* `await interaction.deferReply()`, outside their own try: what it throws
\* reaches the handler's outer catch, which edits the reply; the scan
\* (checkSites, answered by editReply) comes after it.
CommandBranch(h) ==
  /\ pc[h] = "deferred"
  /\ \E ok \in BOOLEAN :
       LET interaction == loc[h].req
       IN  IF interaction.commandName \in ScanCommands
           THEN IF DeferReplyThrows(interaction, ok)
                THEN AckReturn(h, EditReply(DeferReply(interaction, ok)),
                               "error", FALSE)
                ELSE AckReturn(h, EditReply(DeferReply(interaction, ok)),
                               "scan", TRUE)
           ELSE /\ ok
                /\ AckReturn(h, EditReply(interaction), "edited", FALSE)

NextAck ==
  \E h \in Handlers :
     \/ UpFrontDefer(h)
     \/ CommandBranch(h)

SpecAck == Init /\ [][NextAck]_vars

\* ---------------------- HTTP server: POST /api/products/bulk -------------
\* (src/unnamed/part_000, lines 96-148.)  Strings are sequences of
\* characters; Undefined is JavaScript's undefined.
Undefined == << "undefined" >>
Secret == << "s", "3" >>
\* process.env.ADMIN_SECRET: set, or not set at all (nothing checks it).
AdminSecrets == { Secret, Undefined }
\* The Authorization header of the request.
AuthorizationHeaders ==
  { Undefined,
    << "B", " ", "s", "3" >>,       \* Bearer <the secret>
    << "B", " ", "s", "4" >>,       \* Bearer <another token>
    << "B" >>,                      \* Bearer
    << "s", "3" >>,                 \* <the secret>, no scheme
    << "A", " ", "s", "3" >> }      \* another scheme, then the secret
\* req.body.products: absent, an object that is no array, or an array of
\* products, each with or without its image.
WithImage(name) == [ name |-> name, image |-> TRUE ]
WithoutImage(name) == [ name |-> name, image |-> FALSE ]
ProductsValues ==
  { [ kind |-> "undefined", items |-> << >> ],
    [ kind |-> "object", items |-> << >> ],
    [ kind |-> "array", items |-> << >> ],
    [ kind |-> "array", items |-> << WithImage("a") >> ],
    [ kind |-> "array", items |-> << WithImage("a"), WithImage("b") >> ],
    [ kind |-> "array", items |-> << WithoutImage("a") >> ],
    [ kind |-> "array", items |-> << WithImage("a"), WithoutImage("b") >> ] }
BulkRequests ==
  [ secret : AdminSecrets, authorization : AuthorizationHeaders,
    products : ProductsValues, commitOk : BOOLEAN ]

\* str.split(' ')
RECURSIVE SplitSpace(_, _, _, _)
SplitSpace(str, i, cur, acc) ==
  IF i > Len(str) THEN Append(acc, cur)
  ELSE IF str[i] = " " THEN SplitSpace(str, i + 1, << >>, Append(acc, cur))
  ELSE SplitSpace(str, i + 1, Append(cur, str[i]), acc)

\* req.headers.authorization?.split(' ')[1]
AuthToken(authorization) ==
  IF authorization = Undefined THEN Undefined
  ELSE LET parts == SplitSpace(authorization, 1, << >>, << >>)
       IN  IF Len(parts) >= 2 THEN parts[2] ELSE Undefined

\* if (authToken !== process.env.ADMIN_SECRET) return res.status(401)
Unauthorized(authToken, secret) == authToken # secret

\* !products || !Array.isArray(products) || products.length === 0
InvalidProducts(value) ==
  value.kind # "array" \/ Len(value.items) = 0

\* The loop over products: product.image.data throws a TypeError for a
\* product without image, before anything is committed.
LoopThrows(items) == \E i \in 1..Len(items) : ~items[i].image

\* batch.set(docRef, productData) per product; docRef.id is a new id.
BatchOf(items, stored) ==
  [ i \in 1..Len(items) |->
      [ id |-> Len(stored) + i, name |-> items[i].name, via |-> "http" ] ]

Response(status, productIds) ==
  [ status |-> status, productIds |-> productIds ]

InitBulk ==
  /\ products = << >>
  /\ objs = << >>
  /\ file = << >>
  /\ lastScrapeResults = << >>
  /\ scrapeCacheTimestamp = 0
  /\ now = StartTime
  /\ pc = [ h \in Handlers |-> "idle" ]
  /\ loc = [ h \in Handlers |-> Blank ]
  /\ inflight = { }
  /\ messageCache = << >>
  /\ interactionCache = << >>
  /\ components = << >>
  /\ cancelled = { }
  /\ processedInteractions = << >>
  /\ db = << >>
  /\ \E req \in BulkRequests :
       last = [ NoAnswer EXCEPT !.cmd = "POST /api/products/bulk",
                                !.arg = req ]

\* app.post('/api/products/bulk', ...): the whole handler; its only await
\* is batch.commit().
BulkUpload ==
  /\ last.cmd = "POST /api/products/bulk"
  /\ last.value = << >>
  /\ LET req == last.arg
         batch == BatchOf(req.products.items, db)
         ids == [ i \in 1..Len(batch) |-> batch[i].id ]
         answer(res) == last' = [ last EXCEPT !.value = res ]
     IN  IF Unauthorized(AuthToken(req.authorization), req.secret)
         THEN answer(Response(401, << >>)) /\ UNCHANGED db
         ELSE IF InvalidProducts(req.products)
         THEN answer(Response(400, << >>)) /\ UNCHANGED db
         ELSE IF LoopThrows(req.products.items) \/ ~req.commitOk
         THEN answer(Response(500, << >>)) /\ UNCHANGED db
         ELSE answer(Response(200, ids)) /\ db' = db \o batch
  /\ UNCHANGED << products, objs, file, lastScrapeResults,
                  scrapeCacheTimestamp, now, pc, loc, inflight, messageCache,
                  interactionCache, components, cancelled,
                  processedInteractions >>

SpecBulk == InitBulk /\ [][BulkUpload]_vars

\* ------------------------------------------------------------ properties ----
IdsOf(recs) == { recs[i].id : i \in 1..Len(recs) }
\* The i-th smallest element of a set of numbers.
IthSmallest(S, i) ==
  CHOOSE x \in S : Cardinality({ y \in S : y < x }) = i - 1
RecordWithId(recs, id) == recs[CHOOSE i \in 1..Len(recs) : recs[i].id = id]

\* C1: after any sequence of add, bulk-import, remove and bulk-remove
\* commands no two records of the monitor set share an id, every id lies in
\* 1..IdLimit, and so the set holds at most IdLimit records.
C1_IdsUniqueInRange ==
  /\ \A i, j \in 1..Len(products) :
       i # j => objs[products[i]].id # objs[products[j]].id
  /\ \A i \in 1..Len(products) : objs[products[i]].id \in 1..IdLimit
  /\ Len(products) <= IdLimit

\* C2: after a successful remove or bulk-remove the remaining N records have
\* the ids 1..N, given in the order of the ids they had before.
C2_RemovalRenumbers ==
  last.kind \in { "removed", "bulkremoved" } =>
    LET keptIds == IdsOf(last.pre) \ IdsOf(last.removed)
    IN  /\ Len(last.post) = Cardinality(keptIds)
        /\ \A i \in 1..Len(last.post) :
             LET was == RecordWithId(last.pre, IthSmallest(keptIds, i))
             IN  last.post[i] = [ was EXCEPT !.id = i ]

\* C3: an add to a store with fewer than IdLimit records appends the product
\* under the lowest id of 1..IdLimit that no record of the store has.
C3_AddAssignsLowestFreeId ==
  (last.cmd = "addlink" /\ Len(last.pre) < IdLimit) =>
    /\ last.kind = "added"
    /\ last.id \in (1..IdLimit) \ IdsOf(last.pre)
    /\ \A k \in 1..(last.id - 1) : k \in IdsOf(last.pre)
    /\ Len(last.post) = Len(last.pre) + 1
    /\ SubSeq(last.post, 1, Len(last.pre)) = last.pre
    /\ last.post[Len(last.post)].id = last.id
C3_Witness ==
  /\ last.cmd = "addlink" /\ last.kind = "added"
  /\ Len(last.pre) = 1 /\ last.id = 2

\* C4: an add to a store that holds IdLimit records is answered with the
\* capacity error and changes neither the collection nor the file.
C4_AddRejectedWhenFull ==
  (last.cmd = "addlink" /\ Len(last.pre) >= IdLimit) =>
    /\ last.kind = "maxlimit"
    /\ last.post = last.pre
    /\ last.postFile = last.preFile
    /\ ~last.wrote
C4_Witness ==
  /\ last.cmd = "addlink" /\ last.kind = "maxlimit"
  /\ Len(last.pre) = IdLimit /\ last.post = last.pre

\* A requested id as the user wrote it: a decimal integer, blanks around it.
IsInteger(str) ==
  LET t == Trim(str)
  IN  t # << >> /\ \A i \in 1..Len(t) : t[i] \in Digits
\* C5: bulk-remove is all-or-nothing.  If some requested id is not an integer
\* or is not the id of a record, nothing is removed or renumbered and the
\* file is not written; otherwise exactly the records with the requested
\* ids are removed.
C5_BulkRemoveAllOrNothing ==
  last.cmd = "bulkremovelink" =>
    LET toks == Split(last.input)
        allExist == \A i \in 1..Len(toks) :
                      /\ IsInteger(toks[i])
                      /\ ParseDigits(Trim(toks[i]), 1, 0) \in IdsOf(last.pre)
        asked == { ParseDigits(Trim(toks[i]), 1, 0) : i \in 1..Len(toks) }
    IN  IF allExist
        THEN /\ last.kind = "bulkremoved"
             /\ IdsOf(last.removed) = asked
             /\ Len(last.post) = Len(last.pre) - Cardinality(asked)
        ELSE /\ last.kind \in { "invalidformat", "invalidids" }
             /\ last.post = last.pre
             /\ last.postFile = last.preFile
             /\ ~last.wrote

\* C6: whenever a handler of add, remove, bulk-remove or bulk-import has
\* finished, by success or by rejection, the file holds the collection.
C6_FileMirrorsCollection ==
  last.cmd \in { "addlink", "removelink", "bulkremovelink", "bulklink" } =>
    last.postFile = last.post

\* C7: no handler is suspended between its reading of the collection (the
\* ids it allocated) and its writing of it, so no other handler can allocate
\* an id that a suspended handler has allocated and not yet written.
C7_NoAllocationHeldAcrossAwait ==
  \A h \in Handlers :
    pc[h] = "followUp" => IdsOf(loc[h].added) \cap UsedIds(objs, products) = { }

\* C8: a scan during which the monitor set is not modified gives one result
\* per record, in store order, with the record's id, name and url; a record
\* whose two extraction paths both fail gives an error-shaped result with
\* the error's message, and the records after it are processed all the same.
C8_OneResultPerRecord ==
  (last.scanned /\ last.cmd = "products" /\ last.clean) =>
    /\ Len(last.shown) = Len(last.pre)
    /\ Len(last.fails) = Len(last.pre)
    /\ \A i \in 1..Len(last.shown) :
         /\ last.shown[i].id = last.pre[i].id
         /\ last.shown[i].name = last.pre[i].name
         /\ last.shown[i].url = last.pre[i].url
         /\ last.fails[i] => last.shown[i].error = FallbackError
         /\ ~last.fails[i] => /\ last.shown[i].error = ""
                              /\ last.shown[i].price # ""
C8_Witness ==
  /\ last.scanned /\ last.cmd = "products" /\ last.clean
  /\ Len(last.shown) = 2
  /\ last.fails[1] /\ last.shown[1].error = FallbackError
  /\ ~last.fails[2] /\ last.shown[2].error = ""

\* C9: a scan has at most one extraction in flight, and the one in flight is
\* for the record after those that already have a result.
C9_OneExtractionInFlight ==
  \A h \in Handlers :
    LET mine == { f \in inflight : f.h = h }
    IN  /\ Cardinality(mine) <= 1
        /\ \A f \in mine : f.n = Len(loc[h].results) + 1
        /\ Scanning(h) => mine # { }
C9_Witness ==
  \E f \in inflight :
    /\ f.n = 2 /\ f.path = "fallback"
    /\ Len(loc[f.h].results) = 1

\* C10: no command answers with a cached snapshot older than CACHE_DURATION.
C10_NoStaleSnapshotServed ==
  last.fromCache => last.at - last.snapTs <= CACHE_DURATION

\* An error message names a reason when it is, or ends with, the reason.
Names(message, reason) ==
  message \in { reason, CombinedFallbackError(reason) }

\* C11: for each record of a scan the fallback is invoked once if the
\* rendering path failed and not at all if it succeeded; and when the
\* fallback fails too, the record's error names the reason of the fallback's
\* failure (the message of the error underneath).
C11_FallbackOnceAndNamed ==
  last.scanned =>
    /\ Len(last.calls) = Len(last.shown)
    /\ \A n \in 1..Len(last.calls) :
         /\ last.calls[n].fallbacks = IF last.calls[n].renderOk THEN 0 ELSE 1
         /\ last.shown[n].error # "" =>
              /\ ~last.calls[n].renderOk
              /\ Names(last.shown[n].error, last.calls[n].cause)

\* C12: safeGoto calls page.goto at most Retries (3) times, returns on the
\* first call that succeeds, waits 5000 ms after each failure but the third,
\* and after the third failure throws that failure's error.
C12_NavigationRetries ==
  \A h \in Handlers :
    LET me == loc[h]
        failed == Len(me.gotoErrs)
    IN  /\ failed <= 3
        /\ pc[h] = "goto" =>
             /\ failed = me.i /\ failed < 3 /\ me.waits = 5000 * failed
        /\ pc[h] = "backoff" =>
             /\ failed = me.i + 1 /\ failed < 3 /\ me.waits = 5000 * me.i
        /\ pc[h] = "evaluate" =>
             /\ failed = me.i /\ failed < 3 /\ me.waits = 5000 * failed
        /\ failed = 3 =>
             /\ pc[h] = "fallback"
             /\ me.thrown = me.gotoErrs[3]
             /\ me.waits = 5000 * 2
C12_Witness ==
  \E h \in Handlers :
    /\ pc[h] = "fallback"
    /\ Len(loc[h].gotoErrs) = 3
    /\ loc[h].gotoErrs[1] # loc[h].gotoErrs[3]
    /\ loc[h].thrown = loc[h].gotoErrs[3]
    /\ loc[h].waits = 10000

\* The separators of a price text.
Separators == { ",", "." }
\* C13: the last separator (',' or '.') of a price text is its decimal
\* point and every occurrence of the other one is dropped: the digits after
\* the last separator are the fraction, the digits before it the whole part;
\* "1.234,56" and "1,234.56" are both 1234.56; a text with no digit gives
\* no number.
C13_LastSeparatorIsDecimalPoint ==
  (last.cmd = "parsePrice" /\ last.kind = "returned") =>
    LET str == last.arg
        seps == { k \in 1..Len(str) : str[k] \in Separators }
        digits == SelectSeq(str, LAMBDA c : c \in Digits)
    IN  IF digits = << >> THEN last.value.kind # "number"
        ELSE IF seps = { } THEN last.value = Number(ParseDigits(digits, 1, 0), 0)
        ELSE LET point == CHOOSE k \in seps : \A j \in seps : j <= k
                 whole == SelectSeq(SubSeq(str, 1, point - 1),
                                    LAMBDA c : c \in Digits)
                 frac == SelectSeq(SubSeq(str, point + 1, Len(str)),
                                   LAMBDA c : c \in Digits)
             IN  last.value = Number(ParseDigits(whole \o frac, 1, 0), Len(frac))

\* C14: findClosestPrices returns at most 5 records, in ascending order of
\* |priceNum - target|, records of equal difference in snapshot order, and
\* no record left out is closer to the target than a record returned.
C14_ClosestFive ==
  (last.cmd = "findClosestPrices" /\ last.kind = "returned") =>
    LET data == last.arg.priceData
        target == last.arg.targetPrice
        r == last.value
        Diff(p) == Abs(p.priceNum - target)
        returned == { r[k].id : k \in 1..Len(r) }
    IN  /\ Len(r) <= 5
        /\ Len(r) = IF Len(data) < 5 THEN Len(data) ELSE 5
        /\ \A k \in 1..Len(r) :
             /\ r[k].id \in 1..Len(data)
             /\ r[k].priceNum = data[r[k].id].priceNum
             /\ r[k].difference = Diff(data[r[k].id])
        /\ \A j, k \in 1..Len(r) :
             j < k => \/ r[j].difference < r[k].difference
                      \/ /\ r[j].difference = r[k].difference
                         /\ r[j].id < r[k].id
        /\ \A m \in 1..Len(data) :
             m \notin returned =>
               \A k \in 1..Len(r) : Diff(data[m]) >= r[k].difference
C14_Witness ==
  /\ last.cmd = "findClosestPrices" /\ last.kind = "returned"
  /\ Len(last.arg.priceData) = 6 /\ Len(last.value) = 5
  /\ \E j, k \in 1..5 :
       /\ j < k /\ last.value[j].difference = last.value[k].difference
       /\ last.value[j].priceNum # last.value[k].priceNum
  /\ last.value[1].id # 1

\* C15: on both paths of prices the ranked records are exactly the records
\* whose price parses to a number (0 included), so the two paths rank the
\* same records of the same scan results.
C15_SameRecordsRanked ==
  (last.cmd = "priceData" /\ last.kind = "returned") =>
    LET parses == { k \in 1..Len(last.arg) :
                      parsePrice(last.arg[k].price).kind = "number" }
        Ids(data) == { data[k].id : k \in 1..Len(data) }
    IN  /\ Ids(last.value.cached) = parses
        /\ Ids(last.value.rescanned) = parses
        /\ last.value.rescanned = last.value.cached

\* C16: prices shows the closest-price ranking when a ranked record is at
\* distance 0 from the target; otherwise the price range: the record of
\* lowest price, then (2 records or more) of highest price, then (3 or
\* more) the one at position floor(n/2), counted from 0, of the ascending
\* order of prices.
C16_ClosestOrRange ==
  (last.cmd = "pricesAnswer" /\ last.kind # "") =>
    LET data == last.arg.priceData
        target == last.arg.targetPrice
        n == Len(data)
        r == last.value
        prices == { data[k].priceNum : k \in 1..n }
        exact == \E k \in 1..n : data[k].priceNum = target
        Below(v) == Cardinality({ k \in 1..n : data[k].priceNum < v })
        UpTo(v) == Cardinality({ k \in 1..n : data[k].priceNum <= v })
    IN  /\ \A k \in 1..Len(r) :
             r[k].id \in 1..n /\ r[k].priceNum = data[r[k].id].priceNum
        /\ (n > 0 /\ exact) =>
             /\ last.kind = "closest"
             /\ Len(r) = IF n < 5 THEN n ELSE 5
             /\ r[1].priceNum = target
             /\ \A j, k \in 1..Len(r) :
                  j < k => Abs(r[j].priceNum - target)
                             <= Abs(r[k].priceNum - target)
        /\ (n > 0 /\ ~exact) =>
             /\ last.kind = "range"
             /\ Len(r) = IF n < 3 THEN n ELSE 3
             /\ \A v \in prices : r[1].priceNum <= v
             /\ n >= 2 => \A v \in prices : v <= r[2].priceNum
             /\ n >= 3 => /\ Below(r[3].priceNum) <= n \div 2
                          /\ n \div 2 < UpTo(r[3].priceNum)
C16_Witness ==
  /\ last.cmd = "pricesAnswer" /\ last.kind = "range"
  /\ Len(last.arg.priceData) = 4 /\ Len(last.value) = 3
  /\ last.value[3].priceNum = 2
  /\ Cardinality({ k \in 1..4 : last.arg.priceData[k].priceNum = 1 }) = 2

RECURSIVE Flatten(_)
Flatten(pages) ==
  IF pages = << >> THEN << >> ELSE Head(pages) \o Flatten(Tail(pages))

\* C17: n results in pages of 5 are ceil(n / 5) pages; every page but the
\* last holds 5 results, the last between 1 and 5, none is empty, and the
\* pages one after the other are the results in their order.
C17_PagesOfFive ==
  (last.cmd = "chunkArray" /\ last.kind = "returned") =>
    LET n == Len(last.arg)
        pages == last.value
    IN  /\ Len(pages) = (n + 4) \div 5
        /\ \A k \in 1..(Len(pages) - 1) : Len(pages[k]) = 5
        /\ Len(pages) > 0 => Len(pages[Len(pages)]) \in 1..5
        /\ Flatten(pages) = last.arg
C17_Witness ==
  /\ last.cmd = "chunkArray" /\ last.kind = "returned"
  /\ Len(last.arg) = 12
  /\ Len(last.value) = 3
  /\ Len(last.value[1]) = 5 /\ Len(last.value[2]) = 5
  /\ Len(last.value[3]) = 2

\* The page text is a page of a message with n pages: an integer of 0..n-1.
IsPageIndex(text, n) ==
  IsInteger(text) /\ ParseDigits(Trim(text), 1, 0) \in 0..(n - 1)

\* C18: a navigation request whose page index is not an integer of
\* 0..pages-1 is answered with an invalid-page response, and the message's
\* cached pages and currentPage stay as they were.
C18_InvalidPageRejected ==
  (last.cmd = "navigate" /\ last.value # << >>
     /\ ~IsPageIndex(last.arg.text, Len(last.value[1].pages))) =>
    /\ last.kind = "invalidpage"
    /\ pc[last.h] = "idle"
    /\ messageCache[last.arg.message] = last.value[1]

\* C19: a navigation interaction on a message that is not in the pagination
\* cache is answered with an expiry message.
C19_ExpiredAnswered ==
  (last.cmd = "navigate" /\ last.value = << >>) => last.kind = "expired"


\* The documents all carry a main category, and a subcategory whenever the
\* taxonomy has subcategories for that main category.
Categorised(docs) ==
  \A i \in 1..Len(docs) :
    /\ docs[i].mainCategory \in DOMAIN CATEGORIES
    /\ CATEGORIES[docs[i].mainCategory] # << >> => docs[i].subCategory # ""

\* C20: in the add wizard a persistence call is issued only after a main
\* category was selected for the message, and for a main category that has
\* subcategories only after a subcategory was selected too; selecting a main
\* category without subcategories issues the call directly.
C20_PersistAfterSelection ==
  /\ Categorised(db)
  /\ \A h \in Handlers : pc[h] = "addProduct" => Categorised(loc[h].docs)
  /\ last.kind = "persisting" =>
       LET entry == interactionCache[last.arg.message]
       IN  /\ entry.mainCategory \in MainChoices
           /\ \A i \in 1..Len(last.value.docs) :
                /\ last.value.docs[i].mainCategory = entry.mainCategory
                /\ last.value.docs[i].subCategory =
                     (IF last.cmd = "sub_category" THEN last.arg.value ELSE "")
           /\ last.cmd = "main_category" => entry.mainCategory = last.arg.value
           /\ last.cmd = "sub_category" =>
                last.value.cached[1].mainCategory = entry.mainCategory
  /\ ( /\ last.cmd = "main_category"
       /\ last.value.cached # << >>
       /\ last.value.cached[1].type \in { "single", "bulk" } ) =>
       IF CATEGORIES[last.arg.value] = << >>
       THEN last.kind = "persisting"
       ELSE last.kind = "selectsub"

\* The collection holds a product stored with its subcategory after both
\* selections, and the user has just been told of a product stored directly
\* after the selection of a main category without subcategories.
C20_Witness ==
  /\ \E i \in 1..Len(db) : db[i].subCategory # ""
  /\ last.cmd = "main_category" /\ last.kind = "added"


\* The documents in the collection that the wizard of a message stored.
DocsOf(message) == { i \in DOMAIN db : db[i].wizard = message }
WizardComponents == { "confirm_bulk_add", "main_category", "sub_category" }

\* C21: in a bulk add nothing is downloaded and nothing is persisted before
\* the preview is confirmed: while the entry of a message is the unconfirmed
\* preview no document of it is stored and no persistence call of it is in
\* flight, images are downloaded by the confirm handler only, and a category
\* selection that finds the preview ends without a call.
C21_NothingBeforeConfirm ==
  /\ \A m \in 1..Len(interactionCache) :
       interactionCache[m].type = "bulk_preview" =>
         /\ DocsOf(m) = { }
         /\ \A h \in Handlers :
              pc[h] = "addProduct" => loc[h].req.message # m
  /\ \A h \in Handlers : pc[h] = "fetch" => loc[h].cmd = "confirm_bulk_add"
  /\ ( /\ last.cmd \in { "main_category", "sub_category" }
       /\ last.value.from = "deferred"
       /\ last.value.cached # << >>
       /\ last.value.cached[1].type = "bulk_preview" ) =>
       /\ last.kind \in { "selectsub", "unanswered", "expired" }
       /\ pc[last.h] = "idle"

\* A main category without subcategories was selected on an unconfirmed
\* preview.
C21_Witness ==
  /\ last.cmd = "main_category"
  /\ last.value.cached # << >>
  /\ last.value.cached[1].type = "bulk_preview"
  /\ last.arg.value = "KIDS"

\* C22: a confirm, main category or subcategory interaction on a message
\* that has no pending entry is answered as expired, issues no persistence
\* call and leaves the message without an entry.
C22_NoEntryMeansExpired ==
  ( /\ last.cmd \in WizardComponents
    /\ last.value.from = "deferred"
    /\ ~last.value.pending ) =>
    /\ last.kind = "expired"
    /\ last.value.docs = << >>
    /\ pc[last.h] = "idle"
    /\ ~Pending(last.arg.message)

\* After a commit a further selection arrives on the same message.
C22_Witness ==
  /\ last.cmd = "sub_category"
  /\ last.kind = "expired"
  /\ ~last.value.pending
  /\ DocsOf(last.arg.message) # { }

\* C23: a single add is committed only with an attachment that is present,
\* is an image and is at most 1MB; otherwise nothing is persisted and the
\* user is told which constraint was violated.
C23_OnlyValidImagesCommitted ==
  /\ \A i \in DOMAIN db :
       /\ db[i].image.contentType # << >>
       /\ db[i].image.contentType[1] = "image"
       /\ db[i].image.size <= OneMB
  /\ (last.cmd = "add" /\ last.arg.admin) =>
       IF last.arg.attachment.contentType = << >>
            \/ last.arg.attachment.contentType[1] # "image"
       THEN last.kind = "invalidimage"
       ELSE IF last.arg.attachment.size > OneMB
       THEN last.kind = "toolarge"
       ELSE last.kind = "selectmain"

\* The number of items in a comma separated list.
ItemCount(str) == Cardinality({ i \in DOMAIN str : str[i] = "," }) + 1

\* C24: a bulk add whose lists of names, prices and links differ in length,
\* or whose item count is outside 1..5, is answered with the violated
\* constraint, its handler ends there without creating an entry, and every
\* entry holds 1..5 items.
C24_BulkListsValidated ==
  /\ \A m \in 1..Len(interactionCache) :
       Pending(m) => Len(interactionCache[m].products) \in 1..5
  /\ ( /\ last.cmd = "bulk-add"
       /\ last.arg.admin
       /\ last.arg.attachment = Png(OneMB) ) =>
       IF ItemCount(last.arg.names) # ItemCount(last.arg.prices)
            \/ ItemCount(last.arg.names) # ItemCount(last.arg.links)
       THEN last.kind = "mismatch" /\ pc[last.h] = "idle"
       ELSE IF ItemCount(last.arg.names) \notin 1..5
       THEN last.kind = "count" /\ pc[last.h] = "idle"
       ELSE last.kind = "preview" /\ pc[last.h] = "select"

\* A bulk add of six items with a valid image was answered.
C24_Witness ==
  /\ last.cmd = "bulk-add"
  /\ last.kind = "count"
  /\ ItemCount(last.arg.names) = 6

\* C25: a wizard issues at most one persistence call: no item of a message's
\* wizard is stored twice.
C25_OnePersistenceCallPerWizard ==
  \A i, j \in DOMAIN db :
    (i # j /\ db[i].wizard = db[j].wizard) => db[i].name # db[j].name

\* C26: the commit of a confirmed bulk add of N items issues one call of N
\* documents, item i with names[i], prices[i] and links[i], each with the
\* main category stored last for the message and with the selected
\* subcategory, or the empty one when the main category has none; the call
\* stores them all at once.
C26_BulkCommitTagged ==
  /\ (last.kind = "persisting" /\ last.value.cached[1].type = "bulk") =>
       LET entry == interactionCache[last.arg.message]
           items == last.value.cached[1].products
           docs == last.value.docs
       IN  /\ Len(docs) = Len(items)
           /\ Len(docs) \in 1..5
           /\ \A i \in DOMAIN docs :
                /\ docs[i].name = items[i].name
                /\ docs[i].price = items[i].price
                /\ docs[i].link = items[i].link
                /\ docs[i].mainCategory = entry.mainCategory
                /\ docs[i].subCategory =
                     (IF CATEGORIES[entry.mainCategory] = << >> THEN ""
                      ELSE last.arg.value)
  /\ (last.kind = "added" /\ Len(last.value.docs) <= Len(db)) =>
       SubSeq(db, Len(db) - Len(last.value.docs) + 1, Len(db))
         = last.value.docs

\* C27: once the cancel button was handled for a bulk add message of which
\* nothing was stored and no persistence call was in flight, nothing of that
\* bulk add is ever stored.
C27_CancelledNeverPersisted ==
  \A m \in cancelled : DocsOf(m) = { }

\* The wizard of a message is over: the message was sent, its entry was set
\* and the entry is gone.
Destroyed(m) ==
  /\ m \in 1..Len(components)
  /\ ~Pending(m)
  /\ \A h \in Handlers : pc[h] = "select" => loc[h].req.message # m

\* C28: after a successful commit or a handled cancel the message has no
\* entry in the wizard cache, and none comes back: later interactions on it
\* find nothing.
C28_EntryDestroyed ==
  [][ \A m \in 1..MaxWizards : Destroyed(m) => Destroyed(m)' ]_vars

\* C29: when a download or a persistence call of a wizard step fails, the
\* user is answered with the error, the step stores no document and the
\* entry of the message stays as it was.
C29_FailureKeepsEntry ==
  [][ (last'.kind = "error" /\ last'.cmd \in WizardComponents) =>
        /\ db' = db
        /\ interactionCache' = interactionCache
        /\ pc'[last'.h] = "idle" ]_vars

\* The persistence call of a pending single add has failed.
C29_Witness ==
  /\ last.kind = "error"
  /\ last.cmd = "main_category"
  /\ last.value.from = "addProduct"
  /\ Pending(last.arg.message)

\* C30: no persistence call is issued for an interaction whose member lacks
\* the admin role, be it a command or a follow-up button or select.
C30_OnlyAdminsPersist ==
  /\ (last.cmd \in { "add", "bulk-add" } /\ ~last.arg.admin) =>
       last.kind = "forbidden"
  /\ last.kind = "persisting" => last.arg.admin

\* ---- C31 ----
LastN(seq, n) ==
  IF Len(seq) > n THEN SubSeq(seq, Len(seq) - n + 1, Len(seq)) ELSE seq
\* The deliveries before the one just handled, and the ids handled before it.
DeliveredBefore == SubSeq(Deliveries, 1, Len(Deliveries) - 1)
HandledBefore ==
  IF last.kind = "handled" THEN SubSeq(Handled, 1, Len(Handled) - 1)
  ELSE Handled
\* The id just delivered is one of the 100 ids received most recently: it
\* was delivered before, and fewer than 100 other ids were delivered since.
RecentlyReceived ==
  /\ last.cmd = "interactionCreate"
  /\ InSeq(last.id, DeliveredBefore)
  /\ \E p \in 1..Len(DeliveredBefore) :
       /\ DeliveredBefore[p] = last.id
       /\ \A q \in (p + 1)..Len(DeliveredBefore) :
            DeliveredBefore[q] # last.id
       /\ Cardinality({ DeliveredBefore[q] :
                          q \in (p + 1)..Len(DeliveredBefore) })
            < ProcessedCap
\* C31 (as stated): the set holds at most 100 ids after each handler entry,
\* and an interaction whose id is among the 100 most recently received ids
\* is not handled a second time.
C31_RecentlyReceivedSkipped ==
  /\ Len(processedInteractions) <= ProcessedCap
  /\ RecentlyReceived => last.kind = "skipped"
\* C31 (amended): the set holds at most 100 ids after each handler entry and
\* is exactly the last 100 ids handled, oldest evicted first; an interaction
\* whose id is among the 100 ids most recently handled is skipped, and the
\* skip changes nothing.
C31_RecentlyHandledSkipped ==
  /\ Len(processedInteractions) <= ProcessedCap
  /\ processedInteractions = LastN(Handled, ProcessedCap)
  /\ last.cmd = "interactionCreate" =>
       /\ InSeq(last.id, LastN(HandledBefore, ProcessedCap))
            <=> last.kind = "skipped"
       /\ last.kind = "skipped" =>
            processedInteractions = LastN(HandledBefore, ProcessedCap)
\* An id is delivered again and skipped after the oldest ids were evicted.
C31_Witness ==
  /\ last.cmd = "interactionCreate"
  /\ last.kind = "skipped"
  /\ Len(Handled) > ProcessedCap
  /\ Len(processedInteractions) = ProcessedCap

\* ---- C32 ----
\* Handler h's scan gains a result in this step (it resumes from a fetch).
Fetched(h) ==
  /\ pc[h] \in { "render", "fallback" }
  /\ pc'[h] = "idle" \/ loc'[h].idx # loc[h].idx
ResultsAfter(h) ==
  IF pc'[h] = "idle" THEN lastScrapeResults' ELSE loc'[h].results
\* C32: a scan that runs while removelink or bulkremovelink is handled gives
\* exactly one result for every record that was in the monitor set when the
\* scan began and was not removed, and each result's id is the id its record
\* had when its fetch finished.
C32_ScanSurvivesRemoval ==
  [][ \A h \in Handlers :
        /\ Fetched(h) =>
             LET results == ResultsAfter(h)
             IN  /\ Len(results) = Len(loc[h].results) + 1
                 /\ results[Len(results)].id = objs[loc[h].site].id
                 /\ results[Len(results)].name = objs[loc[h].site].name
        /\ (Scanning(h) /\ pc'[h] = "idle") =>
             \A i \in 1..Len(products) :
               Cardinality({ n \in 1..Len(lastScrapeResults') :
                               lastScrapeResults'[n].name
                                 = objs[products[i]].name }) = 1
    ]_vars

\* ---- C33 ----
\* C33: once the rendering path has returned or thrown for a record (the
\* scan is in the fallback, or has filed the record), no browser launched
\* for that record is open.
C33_BrowserClosedAfterExtraction ==
  \A h \in Handlers :
    /\ pc[h] = "fallback" => ~loc[h].browser
    /\ \A n \in 1..Len(loc[h].leaks) : ~loc[h].leaks[n]

\* ---- C34 ----
\* Handler h's scan completes in this step.
Completes(h) ==
  /\ last'.scanned /\ ~last'.fromCache /\ last'.h = h
  /\ pc'[h] = "idle"
\* C34: the cached snapshot and its timestamp change only in the step in
\* which a scan completes, and then both are written: the snapshot becomes
\* that scan's result list (the results it had gathered, and the one of the
\* fetch it resumed from) and the timestamp that step's time.  Hence the
\* cache always holds the results and completion time of the scan that
\* completed last, also when two scans overlap.
C34_CacheIsLastCompletedScan ==
  [][ IF \E h \in Handlers : Completes(h)
      THEN /\ lastScrapeResults' = last'.shown
           /\ scrapeCacheTimestamp' = now
           /\ last'.snapTs = now
           /\ \A h \in Handlers : Completes(h) =>
                /\ Len(lastScrapeResults') <= Len(loc[h].results) + 1
                /\ SubSeq(lastScrapeResults', 1, Len(loc[h].results))
                     = loc[h].results
      ELSE UNCHANGED << lastScrapeResults, scrapeCacheTimestamp >>
    ]_vars
\* A scan has just completed later than the snapshot it replaced, while the
\* other handler's scan, which holds other results, is still running.
C34_Witness ==
  /\ last.scanned /\ ~last.fromCache
  /\ lastScrapeResults = last.shown
  /\ scrapeCacheTimestamp = last.at
  /\ scrapeCacheTimestamp > StartTime
  /\ \E g \in Handlers :
       /\ g # last.h
       /\ Scanning(g)
       /\ loc[g].results # << >>
       /\ \/ Len(loc[g].results) > Len(lastScrapeResults)
          \/ loc[g].results
               # SubSeq(lastScrapeResults, 1, Len(loc[g].results))

\* ---- C35 ----
\* C35: every entry of the pagination cache has at least one page and a
\* currentPage that is an index of its pages; a navigation that shows a page
\* shows the page of the requested index, and on its return currentPage is
\* that index.
C35_CurrentPageValid ==
  /\ [](/\ \A m \in 1..Len(messageCache) :
             /\ Len(messageCache[m].pages) > 0
             /\ messageCache[m].currentPage \in
                  0..(Len(messageCache[m].pages) - 1)
        /\ (last.cmd = "navigate" /\ last.kind = "page") =>
             last.shown = last.value[1].pages[parseInt(last.arg.text) + 1])
  /\ [][ \A h \in Handlers :
           (pc[h] = "editReply" /\ pc'[h] = "idle") =>
             messageCache'[loc[h].req.message].currentPage
               = parseInt(loc[h].req.text)
       ]_vars
\* The last of three pages has been turned to.
C35_Witness ==
  \E m \in 1..Len(messageCache) :
    /\ Len(messageCache[m].pages) = 3
    /\ messageCache[m].currentPage = 2

\* ---- C36 ----
CallsOf(calls, name) ==
  Cardinality({ n \in 1..Len(calls) : calls[n] = name })
\* C36: in the combined bot an interaction is deferred at most once, and a
\* scan command whose up-front deferral succeeded reaches its scan and
\* answers by editing the deferred reply.
C36_AcknowledgedOnce ==
  last.cmd \in AckCommands =>
    /\ CallsOf(last.calls, "deferReply") <= 1
    /\ (last.cmd \in ScanCommands /\ last.kind # "undeferred") =>
         /\ last.scanned
         /\ last.kind = "scan"

\* ---- C37 ----
\* The request carries the admin secret as its bearer token.
CarriesSecret(req) ==
  /\ req.secret # Undefined
  /\ req.authorization # Undefined
  /\ LET parts == SplitSpace(req.authorization, 1, << >>, << >>)
     IN  Len(parts) = 2 /\ parts[2] = req.secret
\* C37: the bulk-insert endpoint writes only for a request that carries the
\* admin secret as its token and a non-empty array of products; a request
\* with a missing or different token gets 401 and a request with a missing,
\* non-array or empty products value gets 400, nothing being written; an
\* accepted request whose commit succeeds writes all its products and
\* returns one id per product.
C37_BulkInsertGuarded ==
  (last.cmd = "POST /api/products/bulk" /\ last.value # << >>) =>
    LET req == last.arg
        res == last.value
    IN  /\ db # << >> =>
              CarriesSecret(req) /\ ~InvalidProducts(req.products)
        /\ ~CarriesSecret(req) => res.status = 401 /\ db = << >>
        /\ (CarriesSecret(req) /\ InvalidProducts(req.products)) =>
              res.status = 400 /\ db = << >>
        /\ (CarriesSecret(req) /\ ~InvalidProducts(req.products)
              /\ req.commitOk) =>
              /\ res.status = 200
              /\ Len(db) = Len(req.products.items)
              /\ Len(res.productIds) = Len(req.products.items)
              /\ \A i \in 1..Len(db) :
                   /\ db[i].name = req.products.items[i].name
                   /\ db[i].id = res.productIds[i]
====
